---- MODULE Spec2Model ----
(***************************************************************************)
(* A model of the concurrent core of MarketAnalysis:                       *)
(*   tools/synced_list.py     SyncedList (the shared work queue)           *)
(*   tools/messaging.py       Message, Listener (the console channel)      *)
(*   tools/synced_output.py   SyncedFile (the file channel)                *)
(*   technical_analysis/historical_data.py  IndicatorResultTracker,        *)
(*                            analyze, _analyze_thread, analyze_symbols    *)
(*   technical_analysis/moving_averages.py, rsi.py  the detectors and the  *)
(*                            worker loops built on them                   *)
(*   data_requests.py         get_data                                     *)
(*                                                                         *)
(* Every thread has a program counter pc[t] whose labels are the source    *)
(* lines of the statement about to run ("pop37" is line 37 of pop).  A     *)
(* leaf call (pop, send, save, record_occurrence, record_change) returns   *)
(* to the label kept in ctx[t]; an exception that no frame catches ends    *)
(* the thread (pc = "dead"), as an uncaught exception ends a Python        *)
(* thread.                                                                 *)
(***************************************************************************)
EXTENDS Integers, Sequences, FiniteSets, TLC

VARIABLES
    initList,   \* the list handed to SyncedList.__init__
    head,       \* SyncedList._head: Unset, NoneRef, or the index of a node
    qlock,      \* SyncedList._lock: 0 when free, else the holding thread
    popHead,    \* pop's local variable head, per thread
    popLog,     \* what the pop calls returned, in the order of their return statements
    msg,        \* per thread: Message._lines of the Message the thread owns
    llock,      \* Listener._lock: 0 when free, else the holding thread
    console,    \* the lines printed to the console so far
    consoleLog, \* the messages handed to send, in the order send took the lock
    flock,      \* SyncedFile._lock
    fileOut,    \* the lines written to SyncedFile._file so far
    flushed,    \* how many of them flush() has pushed out
    fileLog,    \* the messages handed to save, in the order save took the lock
    sendLines,  \* per thread: the copy get_lines() returned to send or save
    sendIdx,    \* per thread: how many lines of the copy the loop has written
    occurrences,    \* IndicatorResultTracker._occurrences
    changes,        \* IndicatorResultTracker._changes, one entry per day
    num_changes,    \* IndicatorResultTracker._num_changes
    num_increases,  \* IndicatorResultTracker._num_increases
    tlock,          \* IndicatorResultTracker._lock
    recChange,      \* per thread: record_change's argument change
    recDay,         \* per thread: record_change's argument day
    recTmp,         \* per thread: the value an augmented assignment has read
    recSnap,        \* per thread: the tracker's fields when the call took the lock
    occDone,        \* record_occurrence calls that have returned
    chgDone,        \* record_change calls that have returned, per list entry
    summary,        \* what summarize() printed and how it ended
    pc,         \* per thread: the statement about to run
    ctx,        \* per thread: where the running leaf call returns to
    calls,      \* per thread: leaf calls started by a driver thread
    symbol,     \* per thread: the caller's variable holding pop's last result
    data,       \* per symbol: the price file <dir>/<symbol>.csv, if there is one
    func,       \* the function the worker threads run
    lsn,        \* what the workers were handed as listener: an instance or the class
    started,    \* how many worker threads the main thread has started
    loc,        \* per thread: the local variables of the detector it is running
    ret,        \* per thread: where the running detector returns to
    out,        \* per thread: how the last detector call ended and what it returned
    given,      \* the input an indicator computation was given
    computed    \* what the indicator computation made of it

queueVars == <<initList, head, qlock, popHead, popLog>>
chanVars == <<llock, console, consoleLog, flock, fileOut, flushed, fileLog, sendLines, sendIdx>>
trackerFields == <<occurrences, changes, num_changes, num_increases>>
trackerVars == <<trackerFields, tlock, recChange, recDay, recTmp, recSnap, occDone, chgDone, summary>>
threadVars == <<pc, ctx, calls, symbol>>
poolVars == <<data, func, lsn, started, loc, ret, out, given, computed>>
vars == <<queueVars, msg, chanVars, trackerVars, threadVars, poolVars>>

\* What the steps of one component leave alone in the others.
NotQueue == <<msg, chanVars, trackerVars, poolVars>>
NotChan == <<queueVars, trackerVars, symbol, poolVars>>
NotTracker == <<queueVars, msg, chanVars, symbol, poolVars>>

----------------------------------------------------------------------------
(* Bounds *)

NumThreads == 2
MaxLen == 3
MaxPops == 3
MaxSends == 3
MaxLines == 2
MaxRecords == 4
Days == 2

Threads == 1..NumThreads
Symbols == {"A", "B"}

\* All sequences over S of length at most n.
RECURSIVE SeqsUpTo(_, _)
SeqsUpTo(S, n) ==
    IF n = 0 THEN {<<>>}
    ELSE LET shorter == SeqsUpTo(S, n - 1)
         IN  shorter \cup {Append(q, x) : q \in {r \in shorter : Len(r) = n - 1}, x \in S}

----------------------------------------------------------------------------
(* tools/node.py and tools/synced_list.py *)

\* A reference to no node (Python's None), and the state of an attribute that
\* was never assigned.
NoneRef == 0
Unset == -1

\* Node i is the node __init__ built for init[i - 1]; its val and next never
\* change after construction.
NodeValReversed(i) == initList[Len(initList) + 1 - i]
NodeVal(i) == initList[i]
NodeNextCircular(i) == IF i >= 1 /\ i < Len(initList) THEN i + 1 ELSE 1
NodeNext(i) == IF i >= 1 /\ i < Len(initList) THEN i + 1 ELSE NoneRef

\* __init__ assigns _head only when the list has an entry.
SyncedListInit(init) == IF Len(init) >= 1 THEN 1 ELSE Unset

\* `with self._lock:` may be entered when nobody holds the lock.
QueueLockIgnored == TRUE
QueueLockFree == qlock = 0

\* Where an exception raised in a leaf call called from label c ends up: a driver
\* thread of a component specification catches it, any other caller does not.
ExcTarget(c) == IF c = "driver" THEN "driver" ELSE "dead"

\* One completed pop call: how it ended ("value", "none", "AttributeError"), the
\* node it took and the value it handed to its caller.
PopEntry(kind, node, val) == [kind |-> kind, node |-> node, val |-> val]

\* line 37: with self._lock
Pop37(t) ==
    /\ pc[t] = "pop37"
    /\ QueueLockFree
    /\ qlock' = t
    /\ pc' = [pc EXCEPT ![t] = "pop38"]
    /\ UNCHANGED <<initList, head, popHead, popLog, ctx, calls, symbol, NotQueue>>

\* lines 38-39: if self._head is None: return None.  Reading an attribute that
\* __init__ never assigned raises AttributeError; leaving the with block releases
\* the lock on either exit.
Pop38(t) ==
    /\ pc[t] = "pop38"
    /\ IF head = Unset
       THEN /\ popLog' = Append(popLog, PopEntry("AttributeError", NoneRef, "None"))
            /\ qlock' = IF qlock = t THEN 0 ELSE qlock
            /\ pc' = [pc EXCEPT ![t] = ExcTarget(ctx[t])]
            /\ symbol' = symbol
       ELSE IF head = NoneRef
       THEN /\ popLog' = Append(popLog, PopEntry("none", NoneRef, "None"))
            /\ qlock' = IF qlock = t THEN 0 ELSE qlock
            /\ pc' = [pc EXCEPT ![t] = ctx[t]]
            /\ symbol' = [symbol EXCEPT ![t] = "None"]
       ELSE /\ pc' = [pc EXCEPT ![t] = "pop41"]
            /\ UNCHANGED <<popLog, qlock, symbol>>
    /\ UNCHANGED <<initList, head, popHead, ctx, calls, NotQueue>>

\* line 41: head = self._head
Pop41(t) ==
    /\ pc[t] = "pop41"
    /\ popHead' = [popHead EXCEPT ![t] = head]
    /\ pc' = [pc EXCEPT ![t] = "pop42"]
    /\ UNCHANGED <<initList, head, qlock, popLog, ctx, calls, symbol, NotQueue>>

\* line 42: self._head = self._head.next (None has no attribute next)
Pop42(t) ==
    /\ pc[t] = "pop42"
    /\ IF head = NoneRef
       THEN /\ popLog' = Append(popLog, PopEntry("AttributeError", NoneRef, "None"))
            /\ qlock' = IF qlock = t THEN 0 ELSE qlock
            /\ popHead' = [popHead EXCEPT ![t] = NoneRef]
            /\ pc' = [pc EXCEPT ![t] = ExcTarget(ctx[t])]
            /\ head' = head
       ELSE /\ head' = NodeNext(head)
            /\ pc' = [pc EXCEPT ![t] = "pop43"]
            /\ UNCHANGED <<qlock, popLog, popHead>>
    /\ UNCHANGED <<initList, ctx, calls, symbol, NotQueue>>

\* pop returning its value without giving the lock back.
Pop43KeepsLock(t) ==
    /\ pc[t] = "pop43"
    /\ popLog' = Append(popLog, PopEntry("value", popHead[t], NodeVal(popHead[t])))
    /\ symbol' = [symbol EXCEPT ![t] = NodeVal(popHead[t])]
    /\ qlock' = qlock
    /\ popHead' = [popHead EXCEPT ![t] = NoneRef]
    /\ pc' = [pc EXCEPT ![t] = ctx[t]]
    /\ UNCHANGED <<initList, head, ctx, calls, NotQueue>>

\* line 43: return head.val, leaving the with block
Pop43(t) ==
    /\ pc[t] = "pop43"
    /\ popLog' = Append(popLog, PopEntry("value", popHead[t], NodeVal(popHead[t])))
    /\ symbol' = [symbol EXCEPT ![t] = NodeVal(popHead[t])]
    /\ qlock' = IF qlock = t THEN 0 ELSE qlock
    /\ popHead' = [popHead EXCEPT ![t] = NoneRef]
    /\ pc' = [pc EXCEPT ![t] = ctx[t]]
    /\ UNCHANGED <<initList, head, ctx, calls, NotQueue>>

Pop(t) == Pop37(t) \/ Pop38(t) \/ Pop41(t) \/ Pop42(t) \/ Pop43(t)

----------------------------------------------------------------------------
(* tools/messaging.py: Message and Listener; tools/synced_output.py: SyncedFile *)

\* One line of text: who composed it, its wording, and the symbol and the
\* number the wording mentions.
Line(t, text, sym, n) == [by |-> t, text |-> text, sym |-> sym, n |-> n]

\* Message.add_line, Message.get_lines (a copy of _lines) and Message.reset
AddLine(lines, line) == Append(lines, line)
GetLines(lines) == lines
Reset == <<>>

ListenerLockIgnored == TRUE
ListenerLockFree == llock = 0
FileLockFree == flock = 0

\* Listener.send line 71: with self._lock
Send71(t) ==
    /\ pc[t] = "send71"
    /\ ListenerLockFree
    /\ llock' = t
    /\ consoleLog' = Append(consoleLog, msg[t])
    /\ pc' = [pc EXCEPT ![t] = "send72"]
    /\ UNCHANGED <<msg, console, flock, fileOut, flushed, fileLog, sendLines, sendIdx,
                   ctx, calls, NotChan>>

\* line 72: for line in message.get_lines(): the copy is taken once
Send72(t) ==
    /\ pc[t] = "send72"
    /\ sendLines' = [sendLines EXCEPT ![t] = GetLines(msg[t])]
    /\ sendIdx' = [sendIdx EXCEPT ![t] = 0]
    /\ pc' = [pc EXCEPT ![t] = "send73"]
    /\ UNCHANGED <<msg, llock, console, consoleLog, flock, fileOut, flushed, fileLog,
                   ctx, calls, NotChan>>

\* send returning without giving the lock back.
Send73KeepsLock(t) ==
    /\ pc[t] = "send73"
    /\ IF sendIdx[t] < Len(sendLines[t])
       THEN /\ console' = Append(console, sendLines[t][sendIdx[t] + 1])
            /\ sendIdx' = [sendIdx EXCEPT ![t] = @ + 1]
            /\ UNCHANGED <<llock, pc, sendLines>>
       ELSE /\ llock' = llock
            /\ pc' = [pc EXCEPT ![t] = ctx[t]]
            /\ sendLines' = [sendLines EXCEPT ![t] = <<>>]
            /\ sendIdx' = [sendIdx EXCEPT ![t] = 0]
            /\ UNCHANGED console
    /\ UNCHANGED <<msg, consoleLog, flock, fileOut, flushed, fileLog,
                   ctx, calls, NotChan>>

\* line 73: print(line) for the next line of the copy; when the copy is
\* exhausted the with block ends, the lock is released and send returns
Send73(t) ==
    /\ pc[t] = "send73"
    /\ IF sendIdx[t] < Len(sendLines[t])
       THEN /\ console' = Append(console, sendLines[t][sendIdx[t] + 1])
            /\ sendIdx' = [sendIdx EXCEPT ![t] = @ + 1]
            /\ UNCHANGED <<llock, pc, sendLines>>
       ELSE /\ llock' = IF llock = t THEN 0 ELSE llock
            /\ pc' = [pc EXCEPT ![t] = ctx[t]]
            /\ sendLines' = [sendLines EXCEPT ![t] = <<>>]
            /\ sendIdx' = [sendIdx EXCEPT ![t] = 0]
            /\ UNCHANGED console
    /\ UNCHANGED <<msg, consoleLog, flock, fileOut, flushed, fileLog,
                   ctx, calls, NotChan>>

Send(t) == Send71(t) \/ Send72(t) \/ Send73(t)

\* SyncedFile.save line 29: with self._lock
Save29(t) ==
    /\ pc[t] = "save29"
    /\ FileLockFree
    /\ flock' = t
    /\ fileLog' = Append(fileLog, msg[t])
    /\ pc' = [pc EXCEPT ![t] = "save30"]
    /\ UNCHANGED <<msg, llock, console, consoleLog, fileOut, flushed, sendLines, sendIdx,
                   ctx, calls, NotChan>>

\* line 30: lines = msg.get_lines()
Save30(t) ==
    /\ pc[t] = "save30"
    /\ sendLines' = [sendLines EXCEPT ![t] = GetLines(msg[t])]
    /\ sendIdx' = [sendIdx EXCEPT ![t] = 0]
    /\ pc' = [pc EXCEPT ![t] = "save32"]
    /\ UNCHANGED <<msg, llock, console, consoleLog, flock, fileOut, flushed, fileLog,
                   ctx, calls, NotChan>>

\* lines 31-32: for line in lines: self._file.write(line + "\n")
Save32(t) ==
    /\ pc[t] = "save32"
    /\ IF sendIdx[t] < Len(sendLines[t])
       THEN /\ fileOut' = Append(fileOut, sendLines[t][sendIdx[t] + 1])
            /\ sendIdx' = [sendIdx EXCEPT ![t] = @ + 1]
            /\ pc' = pc
       ELSE /\ pc' = [pc EXCEPT ![t] = "save33"]
            /\ UNCHANGED <<fileOut, sendIdx>>
    /\ UNCHANGED <<msg, llock, console, consoleLog, flock, flushed, fileLog, sendLines,
                   ctx, calls, NotChan>>

\* line 33: self._file.flush(), then the with block ends and save returns
Save33(t) ==
    /\ pc[t] = "save33"
    /\ flushed' = Len(fileOut)
    /\ flock' = IF flock = t THEN 0 ELSE flock
    /\ pc' = [pc EXCEPT ![t] = ctx[t]]
    /\ sendLines' = [sendLines EXCEPT ![t] = <<>>]
    /\ sendIdx' = [sendIdx EXCEPT ![t] = 0]
    /\ UNCHANGED <<msg, llock, console, consoleLog, fileOut, fileLog,
                   ctx, calls, NotChan>>

Save(t) == Save29(t) \/ Save30(t) \/ Save32(t) \/ Save33(t)

----------------------------------------------------------------------------
(* technical_analysis/historical_data.py: IndicatorResultTracker *)

\* The changes a caller may record: a fall, no change, a rise (in units of the
\* smallest change the model tells apart).
Changes == {-1, 0, 2}

\* IndicatorResultTracker(days)
TrackerConstructed(days) ==
    /\ num_increases = [d \in 1..days |-> 0]
    /\ occurrences = 0
    /\ changes = [d \in 1..days |-> 0]
    /\ num_changes = [d \in 1..days |-> 0]
    /\ tlock = 0
    /\ recChange = [t \in Threads |-> 0]
    /\ recDay = [t \in Threads |-> 1]
    /\ recTmp = [t \in Threads |-> 0]
    /\ recSnap = [t \in Threads |-> <<>>]
    /\ occDone = 0
    /\ chgDone = [d \in 1..days |-> 0]
    /\ summary = [result |-> "none", printed |-> <<>>]

TrackerLockIgnored == TRUE
TrackerLockFree == tlock = 0

\* The entry lst[day - 1] names in a list of `days` entries, counted from 1:
\* Python counts a negative index from the end, and any index outside
\* -days..days-1 raises IndexError (0 here).
ListEntryClamped(day, days) == IF day < 1 THEN 1 ELSE IF day > days THEN days ELSE day
ListEntry(day, days) ==
    IF day - 1 >= 0 /\ day - 1 < days THEN day
    ELSE IF day - 1 < 0 /\ day - 1 >= -days THEN day + days
    ELSE 0

\* record_occurrence that does not wait for the lock: when another thread
\* holds it the call returns without counting.
Ro41OrSkip(t, from, back) ==
    /\ pc[t] = from
    /\ IF TrackerLockFree
       THEN /\ tlock' = t
            /\ ctx' = [ctx EXCEPT ![t] = back]
            /\ pc' = [pc EXCEPT ![t] = "ro42"]
       ELSE /\ pc' = [pc EXCEPT ![t] = back]
            /\ UNCHANGED <<tlock, ctx>>
    /\ UNCHANGED <<trackerFields, recChange, recDay, recTmp, recSnap, occDone, chgDone, summary>>

\* record_occurrence line 41: with self._lock, entered from label `from`
Ro41(t, from, back) ==
    /\ pc[t] = from
    /\ TrackerLockFree
    /\ tlock' = t
    /\ ctx' = [ctx EXCEPT ![t] = back]
    /\ pc' = [pc EXCEPT ![t] = "ro42"]
    /\ UNCHANGED <<trackerFields, recChange, recDay, recTmp, recSnap, occDone, chgDone, summary>>

\* line 42: self._occurrences += 1, the read
Ro42(t) ==
    /\ pc[t] = "ro42"
    /\ recTmp' = [recTmp EXCEPT ![t] = occurrences]
    /\ pc' = [pc EXCEPT ![t] = "ro42w"]
    /\ UNCHANGED <<trackerFields, tlock, recChange, recDay, recSnap, occDone, chgDone, summary,
                   ctx, calls, NotTracker>>

\* The locals of a tracker call are gone when it returns or raises.
RecLocalsGone(t) ==
    /\ recChange' = [recChange EXCEPT ![t] = 0]
    /\ recDay' = [recDay EXCEPT ![t] = 1]
    /\ recTmp' = [recTmp EXCEPT ![t] = 0]
    /\ recSnap' = [recSnap EXCEPT ![t] = <<>>]

\* line 42: the write; the with block ends and the call returns
Ro42w(t) ==
    /\ pc[t] = "ro42w"
    /\ occurrences' = recTmp[t] + 1
    /\ tlock' = IF tlock = t THEN 0 ELSE tlock
    /\ occDone' = occDone + 1
    /\ pc' = [pc EXCEPT ![t] = ctx[t]]
    /\ RecLocalsGone(t)
    /\ UNCHANGED <<changes, num_changes, num_increases,
                   chgDone, summary, ctx, calls, NotTracker>>

\* record_change(change, day) line 52: with self._lock, entered from label `from`
Rc52(t, change, day, from, back) ==
    /\ pc[t] = from
    /\ TrackerLockFree
    /\ tlock' = t
    /\ recChange' = [recChange EXCEPT ![t] = change]
    /\ recDay' = [recDay EXCEPT ![t] = day]
    /\ recSnap' = [recSnap EXCEPT ![t] = trackerFields]
    /\ ctx' = [ctx EXCEPT ![t] = back]
    /\ pc' = [pc EXCEPT ![t] = "rc53"]
    /\ UNCHANGED <<trackerFields, recTmp, occDone, chgDone, summary>>

\* line 53: self._changes[day - 1] += change, the read (IndexError leaves the
\* with block and the call)
Rc53(t) ==
    /\ pc[t] = "rc53"
    /\ IF ListEntry(recDay[t], Len(changes)) = 0
       THEN /\ tlock' = IF tlock = t THEN 0 ELSE tlock
            /\ pc' = [pc EXCEPT ![t] = ExcTarget(ctx[t])]
            /\ RecLocalsGone(t)
       ELSE /\ recTmp' = [recTmp EXCEPT ![t] = changes[ListEntry(recDay[t], Len(changes))]]
            /\ pc' = [pc EXCEPT ![t] = "rc53w"]
            /\ UNCHANGED <<tlock, recChange, recDay, recSnap>>
    /\ UNCHANGED <<trackerFields, occDone, chgDone, summary, ctx, calls, NotTracker>>

\* line 53: the write
Rc53w(t) ==
    /\ pc[t] = "rc53w"
    /\ changes' = [changes EXCEPT ![ListEntry(recDay[t], Len(changes))] = recTmp[t] + recChange[t]]
    /\ pc' = [pc EXCEPT ![t] = "rc54"]
    /\ UNCHANGED <<occurrences, num_changes, num_increases, tlock, recChange, recDay, recTmp,
                   recSnap, occDone, chgDone, summary, ctx, calls, NotTracker>>

\* line 54: self._num_changes[day - 1] += 1, the read
Rc54(t) ==
    /\ pc[t] = "rc54"
    /\ recTmp' = [recTmp EXCEPT ![t] = num_changes[ListEntry(recDay[t], Len(num_changes))]]
    /\ pc' = [pc EXCEPT ![t] = "rc54w"]
    /\ UNCHANGED <<trackerFields, tlock, recChange, recDay, recSnap, occDone, chgDone, summary,
                   ctx, calls, NotTracker>>

\* line 54: the write
Rc54w(t) ==
    /\ pc[t] = "rc54w"
    /\ num_changes' = [num_changes EXCEPT ![ListEntry(recDay[t], Len(num_changes))] = recTmp[t] + 1]
    /\ pc' = [pc EXCEPT ![t] = "rc55"]
    /\ UNCHANGED <<occurrences, changes, num_increases, tlock, recChange, recDay, recTmp,
                   recSnap, occDone, chgDone, summary, ctx, calls, NotTracker>>

\* Whether record_change counts `change` as an increase.
IsIncreaseOrZero(change) == change >= 0
IsIncrease(change) == change > 0

\* line 55: if change > 0; otherwise the with block ends and the call returns
Rc55(t) ==
    /\ pc[t] = "rc55"
    /\ IF IsIncrease(recChange[t])
       THEN /\ pc' = [pc EXCEPT ![t] = "rc56"]
            /\ UNCHANGED <<tlock, chgDone, recChange, recDay, recTmp, recSnap>>
       ELSE /\ tlock' = IF tlock = t THEN 0 ELSE tlock
            /\ chgDone' = [chgDone EXCEPT ![ListEntry(recDay[t], Len(changes))] = @ + 1]
            /\ pc' = [pc EXCEPT ![t] = ctx[t]]
            /\ RecLocalsGone(t)
    /\ UNCHANGED <<trackerFields, occDone, summary, ctx, calls, NotTracker>>

\* line 56: self._num_increases[day - 1] += 1, the read
Rc56(t) ==
    /\ pc[t] = "rc56"
    /\ recTmp' = [recTmp EXCEPT ![t] = num_increases[ListEntry(recDay[t], Len(num_increases))]]
    /\ pc' = [pc EXCEPT ![t] = "rc56w"]
    /\ UNCHANGED <<trackerFields, tlock, recChange, recDay, recSnap, occDone, chgDone, summary,
                   ctx, calls, NotTracker>>

\* line 56: the write; the with block ends and the call returns
Rc56w(t) ==
    /\ pc[t] = "rc56w"
    /\ num_increases' = [num_increases EXCEPT ![ListEntry(recDay[t], Len(num_increases))] = recTmp[t] + 1]
    /\ tlock' = IF tlock = t THEN 0 ELSE tlock
    /\ chgDone' = [chgDone EXCEPT ![ListEntry(recDay[t], Len(changes))] = @ + 1]
    /\ pc' = [pc EXCEPT ![t] = ctx[t]]
    /\ RecLocalsGone(t)
    /\ UNCHANGED <<occurrences, changes, num_changes, occDone, summary, ctx, calls, NotTracker>>

RecordOccurrenceBody(t) == Ro42(t) \/ Ro42w(t)
RecordChangeBody(t) ==
    Rc53(t) \/ Rc53w(t) \/ Rc54(t) \/ Rc54w(t) \/ Rc55(t) \/ Rc56(t) \/ Rc56w(t)

\* One printed figure of summarize: the section it stands in, the day, and the
\* quotient as numerator and denominator.
Figure(section, day, num, den) == [section |-> section, day |-> day, num |-> num, den |-> den]

\* lines 67-68, 71-72, 75-76: one loop of summarize, printing num[i] / den[i]
\* for every entry; the figures printed before a division by zero stops it.
RECURSIVE LoopFigures(_, _, _, _)
LoopFigures(section, num, den, i) ==
    IF i > Len(num) \/ den[i] = 0 THEN <<>>
    ELSE <<Figure(section, i, num[i], den[i])>> \o LoopFigures(section, num, den, i + 1)

\* summarize(): the three loops in turn; a loop that divides by zero raises
\* ZeroDivisionError and nothing after it is printed.
SummarizeResult ==
    LET n == Len(num_increases)
        occ == [d \in 1..n |-> occurrences]
        first == LoopFigures("probability", num_increases, occ, 1)
        second == LoopFigures("average", changes, occ, 1)
        third == LoopFigures("alternative", changes, num_changes, 1)
    IN  IF Len(first) < n
        THEN [result |-> "ZeroDivisionError", printed |-> first]
        ELSE IF Len(third) < n
        THEN [result |-> "ZeroDivisionError", printed |-> first \o second \o third]
        ELSE [result |-> "ok", printed |-> first \o second \o third]

----------------------------------------------------------------------------
(* data_requests.py: get_data, and the price files it reads *)

\* The constants of technical_analysis/moving_averages.py and the period and
\* the RSI level analyze() passes and tests.
SHORT_MOVING_AVERAGE == 20
LONG_MOVING_AVERAGE == 50
MACD_SHORT_AVERAGE == 12
MACD_LONG_AVERAGE == 26
MACD_SIGNAL_PERIOD == 9
EMA_PERIOD == 200
RSI_PERIOD == 14

\* One trading day of a price file inside the range start..end: its adjusted
\* close, whether its RSI is at most 20 ("low"), whether the faster line is
\* above the slower one that day (short average > long average, MACD > Signal),
\* and whether the close is above the 200-day EMA.
Row(price, rsi, above, trend) == [price |-> price, rsi |-> rsi, above |-> above, trend |-> trend]

\* A price file: whether <dir>/<symbol>.csv exists, how many rows it holds
\* before `start`, and its rows from `start` to `end`.
File(pre, win) == [file |-> TRUE, pre |-> pre, win |-> win]
Missing == [file |-> FALSE, pre |-> 0, win |-> <<>>]
Rows(sym) == data[sym].pre + Len(data[sym].win)

\* get_data(symbol, start, end, local, dir): with local=True the frame read from
\* the file, or None after print("No file to open ...") when there is no file;
\* otherwise line 28 evaluates the names period and math, which data_requests.py
\* never defines, and the NameError passes the `except KeyError`.
GetData(sym, local) ==
    IF ~local THEN "NameError"
    ELSE IF ~data[sym].file THEN "None"
    ELSE "data"

\* What get_data prints, with the bare print of line 20 and not through a Listener.
GetDataPrints(t, sym, local) ==
    IF local /\ ~data[sym].file THEN <<Line(t, "No file to open", sym, 0)>> ELSE <<>>

\* A frame a fetch or an indicator handed back: Python's None, or its rows
\* from `start` to `end`.
NoFrame == [some |-> FALSE, rows |-> <<>>]
Frame(rows) == [some |-> TRUE, rows |-> rows]

\* What an indicator call gives its caller: a frame (or None), or an exception.
Got(frame) == [exc |-> "none", frame |-> frame]
Failed(exc) == [exc |-> exc, frame |-> NoFrame]

\* A detector call: the detector, its argument `local`, how many messages the
\* Listener had taken when it was called, how it ended ("running", "returned",
\* "raised"), the list it returned, the exception.
Called(det, local) ==
    [det |-> det, local |-> local, since |-> Len(consoleLog),
     kind |-> "running", val |-> <<>>, exc |-> "none"]
NoOutcome ==
    [det |-> "none", local |-> FALSE, since |-> 0, kind |-> "none", val |-> <<>>, exc |-> "none"]

\* The locals of a detector: the two periods it was given, the frames it
\* holds, the loop indices i and j, last_was_oversold.
Locals(short, long, a, b, i, j, last) ==
    [short |-> short, long |-> long, a |-> a, b |-> b, i |-> i, j |-> j, last |-> last]
NoLocals == Locals(0, 0, NoFrame, NoFrame, 0, 0, FALSE)

\* No indicator computation was asked for.
NoArg == [fn |-> "none"]
NoVal == [exc |-> "pending"]
NothingComputed == given = NoArg /\ computed = NoVal

\* No worker was spawned and no detector is running.
NothingSpawned ==
    /\ data = [s \in Symbols |-> Missing]
    /\ func = "none"
    /\ lsn = "instance"
    /\ started = 0
    /\ NothingComputed
    /\ loc = [t \in Threads |-> NoLocals]
    /\ ret = [t \in Threads |-> "driver"]
    /\ out = [t \in Threads |-> NoOutcome]

----------------------------------------------------------------------------
(* The queue on its own: threads that do nothing but call pop() *)

\* A thread calls symbols.pop(); it goes on calling after a None or an exception.
PopCall(t) ==
    /\ pc[t] = "driver"
    /\ calls[t] < MaxPops
    /\ calls' = [calls EXCEPT ![t] = @ + 1]
    /\ ctx' = [ctx EXCEPT ![t] = "driver"]
    /\ pc' = [pc EXCEPT ![t] = "pop37"]
    /\ UNCHANGED <<queueVars, symbol, NotQueue>>

\* SyncedList(init): the queue after construction, no pop running.
QueueConstructed(init) ==
    /\ initList = init
    /\ head = SyncedListInit(init)
    /\ qlock = 0
    /\ popHead = [t \in Threads |-> NoneRef]
    /\ popLog = <<>>

\* Listener() and SyncedFile(file) after construction; every thread owns a
\* fresh Message().
ChannelsConstructed ==
    /\ msg = [t \in Threads |-> <<>>]
    /\ llock = 0
    /\ console = <<>>
    /\ consoleLog = <<>>
    /\ flock = 0
    /\ fileOut = <<>>
    /\ flushed = 0
    /\ fileLog = <<>>
    /\ sendLines = [t \in Threads |-> <<>>]
    /\ sendIdx = [t \in Threads |-> 0]

\* Every thread is a driver that has made no call yet.
DriversIdle ==
    /\ pc = [t \in Threads |-> "driver"]
    /\ ctx = [t \in Threads |-> "driver"]
    /\ calls = [t \in Threads |-> 0]
    /\ symbol = [t \in Threads |-> "None"]

InitQueue ==
    /\ \E init \in SeqsUpTo(Symbols, MaxLen) : QueueConstructed(init)
    /\ ChannelsConstructed
    /\ TrackerConstructed(Days)
    /\ DriversIdle
    /\ NothingSpawned

NextQueue == \E t \in Threads : PopCall(t) \/ Pop(t)

SpecQueue == InitQueue /\ [][NextQueue]_vars

\* The nodes still linked from _head, the nodes a running pop has unlinked and
\* not yet returned, and the nodes the completed pops returned.
Remaining == IF head >= 1 THEN head..Len(initList) ELSE {}
InFlight == {popHead[t] : t \in {u \in Threads : pc[u] = "pop43"}}
ValueIdx(log) == {k \in DOMAIN log : log[k].kind = "value"}
Delivered == {popLog[k].node : k \in ValueIdx(popLog)}
NoneSeen(log) == \E k \in DOMAIN log : log[k].kind = "none"
QueueQuiet == \A t \in Threads : pc[t] = "driver"

\* C1: every entry of the initial list is returned by exactly one pop call: no
\* node is returned twice, every node is in the queue, in the hands of a running
\* pop or returned, and once a pop has found the queue empty the pops that
\* returned a value are as many as the list was long.
C1_ExactlyOnce ==
    /\ \A j, k \in ValueIdx(popLog) : popLog[j].node = popLog[k].node => j = k
    /\ Delivered \cup InFlight \cup Remaining = 1..Len(initList)
    /\ Delivered \cap InFlight = {}
    /\ Delivered \cap Remaining = {}
    /\ InFlight \cap Remaining = {}
    /\ Cardinality(ValueIdx(popLog)) <= Len(initList)
    /\ (NoneSeen(popLog) \/ (QueueQuiet /\ head \in {NoneRef, Unset}))
          => Cardinality(ValueIdx(popLog)) = Len(initList)

\* A three-entry list has been drained by pops of both threads: each thread's
\* last pop handed it an entry, and no pop is running.
C1_Witness ==
    /\ Len(initList) = 3
    /\ \A t \in Threads : symbol[t] # "None"
    /\ QueueQuiet
    /\ head = NoneRef
    /\ Cardinality(ValueIdx(popLog)) = 3

\* C5: the queue only shrinks: no step lengthens it, a step that changes _head
\* removes exactly one entry, and once a pop has returned None the queue stays
\* as it is and every pop that returns afterwards returns None.
C5_OnlyShrinks ==
    [][ /\ Cardinality(Remaining') <= Cardinality(Remaining)
        /\ (head' # head => Cardinality(Remaining') = Cardinality(Remaining) - 1)
        /\ (NoneSeen(popLog) =>
               /\ head' = head
               /\ (popLog' # popLog => popLog'[Len(popLog')].kind = "none")) ]_vars

\* A pop returned None and a later pop, by the other thread, returned None too.
C5_Witness ==
    /\ Len(initList) >= 2
    /\ Len(popLog) >= 2
    /\ popLog[Len(popLog)].kind = "none"
    /\ popLog[Len(popLog) - 1].kind = "none"
    /\ \A t \in Threads : calls[t] >= 2

\* C6: a SyncedList built from an empty list answers every pop with None.
C6_EmptyListPopsNone ==
    Len(initList) = 0 => \A k \in DOMAIN popLog : popLog[k].kind = "none"

\* C7: the k-th pop that returns a value returns the k-th element of the list
\* given to the constructor (pops are logged at their return statement, inside
\* the critical section, so the log is in lock-acquisition order).
C7_Fifo ==
    \A k \in ValueIdx(popLog) :
        LET rank == Cardinality({j \in ValueIdx(popLog) : j <= k})
        IN  /\ rank <= Len(initList)
            /\ popLog[k].val = initList[rank]

\* A list of two different symbols followed by a third has been handed out in
\* full, by pops of both threads.
C7_Witness ==
    /\ Len(initList) = 3
    /\ initList[1] # initList[2]
    /\ Cardinality(ValueIdx(popLog)) = 3
    /\ \A t \in Threads : symbol[t] # "None"

----------------------------------------------------------------------------
(* The channels on their own: threads that compose Messages and hand them *)
(* to one Listener or to one SyncedFile                                    *)

\* The Message a driver hands over with its next call: its own Message, reset
\* or not, with n more lines added by add_line; a line is numbered by the call
\* it is composed for and its place in the Message.
RECURSIVE Composed(_, _, _)
Composed(t, lines, n) ==
    IF n = 0 THEN lines
    ELSE Composed(t, AddLine(lines, Line(t, "line", "None",
                                         calls[t] * (MaxLines + 1) + Len(lines) + 1)), n - 1)

\* The calls the drivers have made, all threads together.
SumCalls == LET S[n \in 0..NumThreads] == IF n = 0 THEN 0 ELSE S[n - 1] + calls[n] IN S[NumThreads]

SendersAt == {pc[t] : t \in Threads} \cap {"send71", "send72", "send73"}
SaversAt == {pc[t] : t \in Threads} \cap {"save29", "save30", "save32", "save33"}

\* msg.reset() or not, msg.add_line(...) n times, listener.send(msg).  The
\* drivers of one run share one sink: the Listener here.
SendCall(t) ==
    /\ pc[t] = "driver"
    /\ SumCalls < MaxSends
    /\ fileLog = <<>> /\ SaversAt = {}
    /\ \E reset \in BOOLEAN, n \in 0..MaxLines :
          LET kept == IF reset THEN Reset ELSE msg[t]
          IN  /\ Len(kept) + n <= MaxLines
              /\ msg' = [msg EXCEPT ![t] = Composed(t, kept, n)]
    /\ calls' = [calls EXCEPT ![t] = @ + 1]
    /\ ctx' = [ctx EXCEPT ![t] = "driver"]
    /\ pc' = [pc EXCEPT ![t] = "send71"]
    /\ UNCHANGED <<queueVars, chanVars, trackerVars, symbol, poolVars>>

\* the same with synced_file.save(msg): the drivers share the SyncedFile.
SaveCall(t) ==
    /\ pc[t] = "driver"
    /\ SumCalls < MaxSends
    /\ consoleLog = <<>> /\ SendersAt = {}
    /\ \E reset \in BOOLEAN, n \in 0..MaxLines :
          LET kept == IF reset THEN Reset ELSE msg[t]
          IN  /\ Len(kept) + n <= MaxLines
              /\ msg' = [msg EXCEPT ![t] = Composed(t, kept, n)]
    /\ calls' = [calls EXCEPT ![t] = @ + 1]
    /\ ctx' = [ctx EXCEPT ![t] = "driver"]
    /\ pc' = [pc EXCEPT ![t] = "save29"]
    /\ UNCHANGED <<queueVars, chanVars, trackerVars, symbol, poolVars>>

InitSend ==
    /\ QueueConstructed(<<>>)
    /\ ChannelsConstructed
    /\ TrackerConstructed(Days)
    /\ DriversIdle
    /\ NothingSpawned

NextSend ==
    \E t \in Threads :
        \/ SendCall(t)
        \/ SaveCall(t)
        \/ Send(t)
        \/ Save(t)

SpecSend == InitSend /\ [][NextSend]_vars

RECURSIVE Flatten(_)
Flatten(blocks) ==
    IF blocks = <<>> THEN <<>> ELSE blocks[1] \o Flatten(Tail(blocks))

Front(q) == SubSeq(q, 1, Len(q) - 1)

\* The lines a sink holds when its lock is held by `holder` (0: by nobody), who
\* has written `written` lines, and `log` lists the messages in the order the
\* lock was taken: the logged messages one after the other, each whole, the
\* last one up to the line its writer has reached.
BlocksOf(log, holder, written) ==
    IF holder = 0 \/ log = <<>>
    THEN Flatten(log)
    ELSE Flatten(Front(log)) \o SubSeq(log[Len(log)], 1, written)

ConsoleWritten(t) == IF pc[t] = "send73" THEN sendIdx[t] ELSE 0
FileWritten(t) == IF pc[t] = "save32" THEN sendIdx[t] ELSE IF pc[t] = "save33" THEN Len(sendLines[t]) ELSE 0
Waiting == {t \in Threads : pc[t] \in {"send71", "save29"}}

\* C2: the lines that reached the console (the file) are the messages of the
\* send (save) calls, one whole block per call in the order the calls took the
\* lock, the block of the call holding the lock being written up to its current
\* line; no line of another call stands inside a block, and there are exactly
\* as many blocks as calls that got the lock.
C2_Blocks ==
    /\ console = BlocksOf(consoleLog, llock, IF llock = 0 THEN 0 ELSE ConsoleWritten(llock))
    /\ fileOut = BlocksOf(fileLog, flock, IF flock = 0 THEN 0 ELSE FileWritten(flock))
    /\ Len(consoleLog) + Len(fileLog) = SumCalls - Cardinality(Waiting)
    /\ (flock = 0 => flushed = Len(fileOut))

\* One thread is half way through printing a two-line message while the other
\* waits for the Listener's lock with a two-line message of its own.
C2_Witness ==
    \E t, u \in Threads :
        /\ t # u
        /\ llock = t /\ pc[t] = "send73" /\ sendIdx[t] = 1 /\ Len(sendLines[t]) = 2
        /\ pc[u] = "send71" /\ Len(msg[u]) = 2
        /\ Len(consoleLog) = 2

\* The drivers under the scheduling of threads: a thread inside send or save
\* that can take its next step, the lock it needs being free, takes it in the
\* end.  Nothing is promised to a thread that finds the lock held each time
\* it looks.
SpecSendFair ==
    InitSend /\ [][NextSend]_vars /\ \A t \in Threads : WF_vars(Send(t) \/ Save(t))

\* Thread t has made its c-th call of send and has not yet got the lock,
\* while thread u has made d calls and is not inside a call.
CalledBefore(t, u, c, d) ==
    /\ t # u
    /\ pc[t] = "send71" /\ calls[t] = c
    /\ pc[u] = "driver" /\ calls[u] = d

\* Thread u prints the message of its next call, the one after its d-th,
\* while t's c-th call is still short of the lock.
Overtaken(t, u, c, d) ==
    /\ pc[t] = "send71" /\ calls[t] = c
    /\ llock = u /\ calls[u] = d + 1

\* C28: the message blocks reach the console in the order in which the
\* threads made their calls to send: a call made while another call is
\* already short of the lock never gets the lock before that call.
C28_CallOrder ==
    \A t, u \in Threads : \A c, d \in 0..MaxSends :
        [](CalledBefore(t, u, c, d) => []~Overtaken(t, u, c, d))

----------------------------------------------------------------------------
(* The tracker on its own: threads that record occurrences and changes, and *)
(* the main thread that joins them and calls summarize()                    *)

\* The tracker calls that have returned or are running.
RECURSIVE SumSeq(_)
SumSeq(q) == IF q = <<>> THEN 0 ELSE q[1] + SumSeq(Tail(q))
RecordLabels == {"ro42", "ro42w", "rc53", "rc53w", "rc54", "rc54w", "rc55", "rc56", "rc56w"}
Recording == {t \in Threads : pc[t] \in RecordLabels}
RecordsStarted == occDone + SumSeq(chgDone) + Cardinality(Recording)

\* tracker.record_occurrence(), as long as the main thread has not joined
RecordOccurrenceCall(t) ==
    /\ summary.result = "none"
    /\ RecordsStarted < MaxRecords
    /\ Ro41(t, "driver", "driver")
    /\ UNCHANGED <<calls, NotTracker>>

\* tracker.record_change(change, day)
RecordChangeCall(t) ==
    /\ summary.result = "none"
    /\ RecordsStarted < MaxRecords
    /\ \E change \in Changes, day \in 0..(Days + 1) : Rc52(t, change, day, "driver", "driver")
    /\ UNCHANGED <<calls, NotTracker>>

\* analyze_symbols lines 153-156: every thread has been joined, tracker.summarize()
JoinAndSummarize ==
    /\ summary.result = "none"
    /\ \A t \in Threads : pc[t] = "driver"
    /\ summary' = SummarizeResult
    /\ UNCHANGED <<trackerFields, tlock, recChange, recDay, recTmp, recSnap, occDone, chgDone,
                   threadVars, NotTracker>>

InitTracker ==
    /\ QueueConstructed(<<>>)
    /\ ChannelsConstructed
    /\ TrackerConstructed(Days)
    /\ DriversIdle
    /\ NothingSpawned

NextTracker ==
    \/ \E t \in Threads :
          \/ RecordOccurrenceCall(t)
          \/ RecordChangeCall(t)
          \/ RecordOccurrenceBody(t)
          \/ RecordChangeBody(t)
    \/ JoinAndSummarize

SpecTracker == InitTracker /\ [][NextTracker]_vars

\* C3: when no tracker call is running, occurrences is the number of
\* record_occurrence calls made and _num_changes[d] the number of record_change
\* calls made for entry d, whatever the interleaving (no update is lost); in
\* particular N workers that each call both once for day 1 leave N and N.
C3_NoLostUpdate ==
    Recording = {} =>
        /\ occurrences = occDone
        /\ \A d \in 1..Days : num_changes[d] = chgDone[d]

\* As many record_occurrence calls and as many record_change calls for day 1
\* as there are threads have returned, and the tracker shows that many.
C3_Witness ==
    /\ Recording = {}
    /\ occDone = NumThreads
    /\ chgDone[1] = NumThreads
    /\ occurrences = NumThreads
    /\ num_changes[1] = NumThreads

\* The fields record_change(change, day) must leave behind, given the fields
\* it found: change added to changeSum[day], changeCount[day] one higher,
\* increaseCount[day] one higher iff change > 0, everything else as it was.
FieldsAfterChange(before, change, day) ==
    <<before[1],
      [before[2] EXCEPT ![day] = @ + change],
      [before[3] EXCEPT ![day] = @ + 1],
      [before[4] EXCEPT ![day] = @ + (IF change > 0 THEN 1 ELSE 0)]>>

RecordChangeReturns(t) == pc[t] \in {"rc55", "rc56w"} /\ pc'[t] \notin RecordLabels

\* C8: a record_change(change, day) call with 1 <= day <= D holds the tracker's
\* lock from its first read to its return, and at its return the fields are
\* those it found with changeSum[day], changeCount[day] and, iff change > 0,
\* increaseCount[day] updated: occurrences and every other day are unchanged.
C8_RecordChangeFrame ==
    /\ [](\A t \in Recording : tlock = t)
    /\ [][\A t \in Threads :
            (RecordChangeReturns(t) /\ recDay[t] \in 1..Days) =>
                trackerFields' = FieldsAfterChange(recSnap[t], recChange[t], recDay[t])]_vars

\* A record_change(0, 2) is about to return on a tracker that already holds an
\* occurrence and a rise recorded for day 1.
C8_Witness ==
    \E t \in Threads :
        /\ pc[t] = "rc55"
        /\ recChange[t] = 0
        /\ recDay[t] = 2
        /\ occurrences = 1
        /\ num_changes[1] = 1
        /\ num_increases[1] = 1
        /\ num_changes[2] = 1

\* C36: whatever record_occurrence and record_change calls the threads make,
\* for every day d 0 <= _num_increases[d] <= _num_changes[d] in every state,
\* and no step lowers _occurrences, _num_changes[d] or _num_increases[d].
C36_CountersMonotone ==
    /\ [](\A d \in 1..Days : 0 <= num_increases[d] /\ num_increases[d] <= num_changes[d])
    /\ [][/\ occurrences' >= occurrences
          /\ \A d \in 1..Days : /\ num_changes'[d] >= num_changes[d]
                                /\ num_increases'[d] >= num_increases[d]]_vars

\* Calls of two threads have returned: an occurrence, a rise and a change
\* that is no rise for day 1, a rise for day 2.
C36_Witness ==
    /\ Recording = {}
    /\ occurrences = 1
    /\ num_changes[1] = 2 /\ num_changes[2] = 1
    /\ num_increases[1] = 1 /\ num_increases[2] = 1

\* C37: record_change(change, day) with day <= 0 or day > D changes no field
\* of the tracker: as long as such a call runs, _occurrences, _changes,
\* _num_changes and _num_increases are what the call found.
C37_DayOutsideRangeIgnored ==
    \A t \in Threads :
        (pc[t] \in RecordLabels \ {"ro42", "ro42w"} /\ recDay[t] \notin 1..Days)
            => trackerFields = recSnap[t]

\* C9: summarize() completes without a division by zero, also when nothing was
\* recorded.
C9_SummarizeCompletes == summary.result # "ZeroDivisionError"

----------------------------------------------------------------------------
(* technical_analysis/moving_averages.py: moving_average, MACD, EMA,        *)
(* golden_cross, MACD_signal                                                *)

\* What a detector step leaves alone.
DetFrame == <<queueVars, trackerVars, llock, consoleLog, flock, fileOut, flushed, fileLog,
              sendLines, sendIdx, calls, symbol, data, func, lsn, started, given, computed>>

\* The detector of thread t returns val to its caller.
DetReturn(t, val) ==
    /\ out' = [out EXCEPT ![t].kind = "returned", ![t].val = val]
    /\ pc' = [pc EXCEPT ![t] = ret[t]]
    /\ loc' = [loc EXCEPT ![t] = NoLocals]

\* An exception leaves the detector of thread t.
DetRaise(t, exc) ==
    /\ out' = [out EXCEPT ![t].kind = "raised", ![t].exc = exc]
    /\ pc' = [pc EXCEPT ![t] = ExcTarget(ret[t])]
    /\ loc' = [loc EXCEPT ![t] = NoLocals]

\* listener.send(msg) called inside a detector, returning to label back: with
\* the class Listener in place of an instance the call lacks the argument
\* `message` and raises TypeError.
DetSend(t, back) ==
    IF lsn = "class"
    THEN DetRaise(t, "TypeError") /\ ctx' = ctx
    ELSE /\ pc' = [pc EXCEPT ![t] = "send71"]
         /\ ctx' = [ctx EXCEPT ![t] = back]
         /\ UNCHANGED <<loc, out>>

\* moving_average(symbol, start, end, n, local, dir), lines 61-90: None when
\* get_data gave None, NotEnoughDataError when fewer than n rows precede
\* `start`, otherwise the averages of the rows from start to end.
MovingAverage(sym, n, local) ==
    LET got == GetData(sym, local)
    IN  IF got = "NameError" THEN Failed("NameError")
        ELSE IF got = "None" THEN Got(NoFrame)
        ELSE IF data[sym].pre < n THEN Failed("NotEnoughDataError")
        ELSE Got(Frame(data[sym].win))

\* EMA(df, column, result, n), line 145: fewer than n + 1 rows raise.
EMA(rows, n) == IF rows < n + 1 THEN "NotEnoughDataError" ELSE "none"

\* MACD(symbol, start, end, local, dir), lines 182-222
MACD(sym, local) ==
    LET got == GetData(sym, local)
    IN  IF got = "NameError" THEN Failed("NameError")
        ELSE IF got = "None" THEN Got(NoFrame)
        ELSE IF data[sym].pre < MACD_LONG_AVERAGE + MACD_SIGNAL_PERIOD
        THEN Failed("NotEnoughDataError")
        ELSE Got(Frame(data[sym].win))

\* golden_cross lines 307-311: the days whose short average is above the long
\* one while the day before it was not.
GoldenCrosses(rows) ==
    SelectSeq([k \in 1..(Len(rows) - 1) |-> k + 1],
              LAMBDA d : ~rows[d - 1].above /\ rows[d].above)

\* MACD_signal lines 270-276: the days whose MACD is above the signal line
\* while the day before it was not, and whose close is above the 200-day EMA.
MacdSignals(rows) ==
    SelectSeq([k \in 1..(Len(rows) - 1) |-> k + 1],
              LAMBDA d : rows[d].above /\ ~rows[d - 1].above /\ rows[d].trend)

\* golden_cross lines 292-295: msg = Message(); short_average = moving_average(...)
Gc295(t) ==
    /\ pc[t] = "gc295"
    /\ msg' = [msg EXCEPT ![t] = <<>>]
    /\ console' = console \o GetDataPrints(t, symbol[t], out[t].local)
    /\ LET r == MovingAverage(symbol[t], loc[t].short, out[t].local)
       IN  IF r.exc = "NotEnoughDataError"
           THEN /\ pc' = [pc EXCEPT ![t] = "gc298"]
                /\ UNCHANGED <<loc, out>>
           ELSE IF r.exc # "none"
           THEN DetRaise(t, r.exc)
           ELSE /\ loc' = [loc EXCEPT ![t].a = r.frame]
                /\ pc' = [pc EXCEPT ![t] = "gc296"]
                /\ out' = out
    /\ UNCHANGED <<ctx, ret, DetFrame>>

\* line 296: long_average = moving_average(...)
Gc296(t) ==
    /\ pc[t] = "gc296"
    /\ console' = console \o GetDataPrints(t, symbol[t], out[t].local)
    /\ LET r == MovingAverage(symbol[t], loc[t].long, out[t].local)
       IN  IF r.exc = "NotEnoughDataError"
           THEN /\ pc' = [pc EXCEPT ![t] = "gc298"]
                /\ UNCHANGED <<loc, out>>
           ELSE IF r.exc # "none"
           THEN DetRaise(t, r.exc)
           ELSE /\ loc' = [loc EXCEPT ![t].b = r.frame]
                /\ pc' = [pc EXCEPT ![t] = "gc303"]
                /\ out' = out
    /\ UNCHANGED <<msg, ctx, ret, DetFrame>>

\* lines 297-299: except NotEnoughDataError: msg.add_line(str(e)); listener.send(msg)
Gc298(t) ==
    /\ pc[t] = "gc298"
    /\ msg' = [msg EXCEPT ![t] = AddLine(@, Line(t, "Not enough data", symbol[t], 0))]
    /\ DetSend(t, "gc301")
    /\ UNCHANGED <<console, ret, DetFrame>>

\* line 301: return []
Gc301(t) ==
    /\ pc[t] = "gc301"
    /\ DetReturn(t, <<>>)
    /\ UNCHANGED <<msg, console, ctx, ret, DetFrame>>

\* lines 303-318: with both averages, return the crosses; otherwise the three
\* lines of "Couldn't get data" and listener.send(msg)
Gc303(t) ==
    /\ pc[t] = "gc303"
    /\ IF loc[t].a.some /\ loc[t].b.some
       THEN /\ DetReturn(t, GoldenCrosses(loc[t].a.rows))
            /\ UNCHANGED <<msg, ctx>>
       ELSE /\ msg' = [msg EXCEPT ![t] =
                         AddLine(AddLine(AddLine(@, Line(t, "rule", symbol[t], 0)),
                                         Line(t, "Couldn't get data", symbol[t], 0)),
                                 Line(t, "rule", symbol[t], 0))]
            /\ DetSend(t, "gc320")
    /\ UNCHANGED <<console, ret, DetFrame>>

\* line 320: return []
Gc320(t) ==
    /\ pc[t] = "gc320"
    /\ DetReturn(t, <<>>)
    /\ UNCHANGED <<msg, console, ctx, ret, DetFrame>>

golden_cross(t) == Gc295(t) \/ Gc296(t) \/ Gc298(t) \/ Gc301(t) \/ Gc303(t) \/ Gc320(t)

\* MACD_signal lines 254-256: macd = MACD(...) under `except NotEnoughDataError`
Ms255(t) ==
    /\ pc[t] = "ms255"
    /\ console' = console \o GetDataPrints(t, symbol[t], out[t].local)
    /\ LET r == MACD(symbol[t], out[t].local)
       IN  IF r.exc = "NotEnoughDataError"
           THEN /\ pc' = [pc EXCEPT ![t] = "ms257"]
                /\ UNCHANGED <<loc, out>>
           ELSE IF r.exc # "none"
           THEN DetRaise(t, r.exc)
           ELSE /\ loc' = [loc EXCEPT ![t].a = r.frame]
                /\ pc' = [pc EXCEPT ![t] = "ms264"]
                /\ out' = out
    /\ UNCHANGED <<msg, ctx, ret, DetFrame>>

\* lines 257-259: msg = Message(); msg.add_line(str(e)); listener.send(msg)
Ms257(t) ==
    /\ pc[t] = "ms257"
    /\ msg' = [msg EXCEPT ![t] = AddLine(<<>>, Line(t, "Not enough data", symbol[t], 0))]
    /\ DetSend(t, "ms261")
    /\ UNCHANGED <<console, ret, DetFrame>>

\* line 261: return []
Ms261(t) ==
    /\ pc[t] = "ms261"
    /\ DetReturn(t, <<>>)
    /\ UNCHANGED <<msg, console, ctx, ret, DetFrame>>

\* lines 264-266: data = get_data(...); if data is None: return []
Ms264(t) ==
    /\ pc[t] = "ms264"
    /\ console' = console \o GetDataPrints(t, symbol[t], out[t].local)
    /\ LET got == GetData(symbol[t], out[t].local)
       IN  IF got = "NameError"
           THEN DetRaise(t, "NameError")
           ELSE IF got = "None"
           THEN DetReturn(t, <<>>)
           ELSE /\ loc' = [loc EXCEPT ![t].b = Frame(data[symbol[t]].win)]
                /\ pc' = [pc EXCEPT ![t] = "ms268"]
                /\ out' = out
    /\ UNCHANGED <<msg, ctx, ret, DetFrame>>

\* lines 268-278: EMA(data, "Adj Close", "EMA", 200) outside any try, then the
\* loop over macd.index (None has no attribute index) and return signals
Ms268(t) ==
    /\ pc[t] = "ms268"
    /\ IF EMA(Rows(symbol[t]), EMA_PERIOD) # "none"
       THEN DetRaise(t, EMA(Rows(symbol[t]), EMA_PERIOD))
       ELSE IF ~loc[t].a.some
       THEN DetRaise(t, "AttributeError")
       ELSE DetReturn(t, MacdSignals(loc[t].a.rows))
    /\ UNCHANGED <<msg, console, ctx, ret, DetFrame>>

MACD_signal(t) == Ms255(t) \/ Ms257(t) \/ Ms261(t) \/ Ms264(t) \/ Ms268(t)

----------------------------------------------------------------------------
(* The detectors on their own: a caller that hands golden_cross and         *)
(* MACD_signal a symbol, a Listener and the two ways of fetching            *)

MaxDetects == 2
MaxRows == 2

\* The thread that calls the detectors: the first one.
Caller == CHOOSE t \in Threads : \A u \in Threads : t <= u

\* The numbers of rows before `start` the files are tried with: none, enough
\* for the short average and MACD only, enough for both averages, enough for
\* the 200-day EMA.
PreCounts == {0, MACD_LONG_AVERAGE + MACD_SIGNAL_PERIOD, LONG_MOVING_AVERAGE, EMA_PERIOD}

\* The rows a file is tried with: the faster line below or above the slower
\* one, the close above or below the 200-day EMA.
DetectRows == {Row(1, "mid", above, trend) : above \in BOOLEAN, trend \in BOOLEAN}
DetectFiles == {Missing} \cup {File(p, w) : p \in PreCounts, w \in SeqsUpTo(DetectRows, MaxRows)}

\* golden_cross(symbol, listener, SHORT_MOVING_AVERAGE, LONG_MOVING_AVERAGE, start, end, local, dir)
GoldenCrossCall(t) ==
    /\ pc[t] = "driver"
    /\ calls[t] < MaxDetects
    /\ \E s \in Symbols, local \in BOOLEAN :
          /\ symbol' = [symbol EXCEPT ![t] = s]
          /\ out' = [out EXCEPT ![t] = Called("golden_cross", local)]
    /\ loc' = [loc EXCEPT ![t] = Locals(SHORT_MOVING_AVERAGE, LONG_MOVING_AVERAGE,
                                        NoFrame, NoFrame, 0, 0, FALSE)]
    /\ calls' = [calls EXCEPT ![t] = @ + 1]
    /\ ret' = [ret EXCEPT ![t] = "driver"]
    /\ pc' = [pc EXCEPT ![t] = "gc295"]
    /\ UNCHANGED <<queueVars, msg, chanVars, trackerVars, ctx, data, func, lsn, started, given, computed>>

\* MACD_signal(symbol, listener, start, end, local, dir)
MACDSignalCall(t) ==
    /\ pc[t] = "driver"
    /\ calls[t] < MaxDetects
    /\ \E s \in Symbols, local \in BOOLEAN :
          /\ symbol' = [symbol EXCEPT ![t] = s]
          /\ out' = [out EXCEPT ![t] = Called("MACD_signal", local)]
    /\ loc' = [loc EXCEPT ![t] = NoLocals]
    /\ calls' = [calls EXCEPT ![t] = @ + 1]
    /\ ret' = [ret EXCEPT ![t] = "driver"]
    /\ pc' = [pc EXCEPT ![t] = "ms255"]
    /\ UNCHANGED <<queueVars, msg, chanVars, trackerVars, ctx, data, func, lsn, started, given, computed>>

\* The files: one symbol has any of the files above, the others have none.
InitDetect ==
    /\ QueueConstructed(<<>>)
    /\ ChannelsConstructed
    /\ TrackerConstructed(Days)
    /\ DriversIdle
    /\ \E f \in DetectFiles : data = [s \in Symbols |-> IF s = "A" THEN f ELSE Missing]
    /\ func = "none"
    /\ lsn = "instance"
    /\ started = 0
    /\ NothingComputed
    /\ loc = [t \in Threads |-> NoLocals]
    /\ ret = [t \in Threads |-> "driver"]
    /\ out = [t \in Threads |-> NoOutcome]

NextDetect ==
    \/ GoldenCrossCall(Caller)
    \/ MACDSignalCall(Caller)
    \/ golden_cross(Caller)
    \/ MACD_signal(Caller)
    \/ Send(Caller)

SpecDetect == InitDetect /\ [][NextDetect]_vars

\* The messages thread t has handed to Listener.send since its last detector
\* call began that tell of a failure to get the data of sym.
FailureMessages(t, sym) ==
    {k \in (out[t].since + 1)..Len(consoleLog) :
        \E n \in DOMAIN consoleLog[k] :
            /\ consoleLog[k][n].by = t
            /\ consoleLog[k][n].sym = sym
            /\ consoleLog[k][n].text = "Couldn't get data"}

\* The detector calls that have ended and whose fetch gave None.
EndedWithoutData ==
    {t \in Threads : /\ out[t].kind \in {"returned", "raised"}
                     /\ pc[t] = ret[t]
                     /\ GetData(symbol[t], out[t].local) = "None"}

\* C10: when get_data returns None for the symbol, the detector returns no
\* event, has sent a failure message through the Listener, and raises nothing.
C10_NoDataIsReported ==
    \A t \in EndedWithoutData :
        /\ out[t].kind = "returned"
        /\ out[t].val = <<>>
        /\ FailureMessages(t, symbol[t]) # {}

----------------------------------------------------------------------------
(* technical_analysis/rsi.py: rsi; technical_analysis/historical_data.py:   *)
(* analyze                                                                  *)

\* rsi(symbol, start, end, period, local, dir): None when get_data gave None;
\* line 41 drops the first row of the file; lines 50-52 read the rows
\* 0..period-1 of what is left, an IndexError on a file of fewer than
\* period + 1 rows; line 69 returns the rows from start to end.
rsi(sym, period, local) ==
    LET got == GetData(sym, local)
    IN  IF got = "NameError" THEN Failed("NameError")
        ELSE IF got = "None" THEN Got(NoFrame)
        ELSE IF Rows(sym) < period + 1 THEN Failed("IndexError")
        ELSE IF data[sym].pre = 0 THEN Got(Frame(Tail(data[sym].win)))
        ELSE Got(Frame(data[sym].win))

\* The unit the model counts a relative price change in, and the change
\* (to - from) / from of lines 123-124 in that unit.
ChangeUnit == 2
PriceChange(from, to) == (ChangeUnit * (to - from)) \div from

\* The three lines analyze adds for an oversold day (lines 108-110).
OversoldLines(t, sym, i) ==
    <<Line(t, "rule", sym, 0), Line(t, "was oversold", sym, i), Line(t, "rule", sym, 0)>>

\* analyze lines 94-100: msg = Message(); df_rsi = rsi(symbol, 2010-01-01,
\* 2019-12-31, 14, local=True, dir="../data"); last_was_oversold = False
An94(t) ==
    /\ pc[t] = "an94"
    /\ msg' = [msg EXCEPT ![t] = <<>>]
    /\ console' = console \o GetDataPrints(t, symbol[t], TRUE)
    /\ LET r == rsi(symbol[t], RSI_PERIOD, TRUE)
       IN  IF r.exc # "none"
           THEN DetRaise(t, r.exc)
           ELSE /\ loc' = [loc EXCEPT ![t].a = r.frame, ![t].i = 0, ![t].last = FALSE]
                /\ pc' = [pc EXCEPT ![t] = "an102"]
                /\ out' = out
    /\ UNCHANGED <<ctx, ret, DetFrame>>

\* lines 101-113: the loop head and one row: an oversold day adds its three
\* lines; the first day after a run of them calls listener.send(msg)
An102(t) ==
    /\ pc[t] = "an102"
    /\ LET rows == loc[t].a.rows
           i == loc[t].i
       IN  IF ~loc[t].a.some \/ i >= Len(rows)
           THEN /\ DetReturn(t, <<>>)
                /\ UNCHANGED <<msg, ctx>>
           ELSE IF rows[i + 1].rsi = "low"
           THEN /\ loc' = [loc EXCEPT ![t].last = TRUE, ![t].i = i + 1]
                /\ msg' = [msg EXCEPT ![t] = @ \o OversoldLines(t, symbol[t], i)]
                /\ UNCHANGED <<pc, ctx, out>>
           ELSE IF loc[t].last
           THEN /\ DetSend(t, "an114")
                /\ msg' = msg
           ELSE /\ loc' = [loc EXCEPT ![t].i = i + 1]
                /\ UNCHANGED <<msg, pc, ctx, out>>
    /\ UNCHANGED <<console, ret, DetFrame>>

\* lines 114-117 without line 115: last_was_oversold stays True.
An114KeepsFlag(t) ==
    /\ msg' = [msg EXCEPT ![t] = Reset]
    /\ loc' = loc
    /\ Ro41(t, "an114", "an119")
    /\ UNCHANGED <<queueVars, chanVars, calls, symbol, data, func, lsn, started, ret, out, given, computed>>

\* lines 114-117: msg.reset(); last_was_oversold = False; tracker.record_occurrence()
An114(t) ==
    /\ msg' = [msg EXCEPT ![t] = Reset]
    /\ loc' = [loc EXCEPT ![t].last = FALSE]
    /\ Ro41(t, "an114", "an119")
    /\ UNCHANGED <<queueVars, chanVars, calls, symbol, data, func, lsn, started, ret, out, given, computed>>

\* line 119: listener.send(msg), of the message just reset
An119(t) ==
    /\ pc[t] = "an119"
    /\ DetSend(t, "an120")
    /\ UNCHANGED <<msg, console, ret, DetFrame>>

\* lines 120-121 with j = i + 2: the day after the occurrence is left out.
An120SkipsDay(t) ==
    /\ pc[t] = "an120"
    /\ msg' = [msg EXCEPT ![t] = Reset]
    /\ loc' = [loc EXCEPT ![t].j = loc[t].i + 2]
    /\ pc' = [pc EXCEPT ![t] = "an122"]
    /\ UNCHANGED <<console, ctx, ret, out, DetFrame>>

\* lines 120-121: msg.reset(); j = i + 1
An120(t) ==
    /\ pc[t] = "an120"
    /\ msg' = [msg EXCEPT ![t] = Reset]
    /\ loc' = [loc EXCEPT ![t].j = loc[t].i + 1]
    /\ pc' = [pc EXCEPT ![t] = "an122"]
    /\ UNCHANGED <<console, ctx, ret, out, DetFrame>>

\* lines 122-126 with the loop running one day further: j <= i + days + 1
An122OneDayMore(t) ==
    /\ pc[t] = "an122"
    /\ loc[t].j <= loc[t].i + Len(changes) + 1
    /\ loc[t].j < Len(loc[t].a.rows)
    /\ msg' = [msg EXCEPT ![t] = AddLine(@, Line(t, "Recording change", symbol[t], loc[t].j - loc[t].i))]
    /\ Rc52(t, PriceChange(loc[t].a.rows[loc[t].i + 1].price, loc[t].a.rows[loc[t].j + 1].price),
            loc[t].j - loc[t].i, "an122", "an127")
    /\ UNCHANGED <<queueVars, chanVars, calls, symbol, poolVars>>

\* lines 122-126: while j <= i + days and j < len(df_rsi.index): the change
\* from day i to day j, its line, tracker.record_change(change, j - i)
An122(t) ==
    /\ pc[t] = "an122"
    /\ loc[t].j <= loc[t].i + Len(changes)
    /\ loc[t].j < Len(loc[t].a.rows)
    /\ msg' = [msg EXCEPT ![t] = AddLine(@, Line(t, "Recording change", symbol[t], loc[t].j - loc[t].i))]
    /\ Rc52(t, PriceChange(loc[t].a.rows[loc[t].i + 1].price, loc[t].a.rows[loc[t].j + 1].price),
            loc[t].j - loc[t].i, "an122", "an127")
    /\ UNCHANGED <<queueVars, chanVars, calls, symbol, poolVars>>

\* line 127: j += 1
An127(t) ==
    /\ pc[t] = "an127"
    /\ loc' = [loc EXCEPT ![t].j = @ + 1]
    /\ pc' = [pc EXCEPT ![t] = "an122"]
    /\ UNCHANGED <<msg, console, ctx, ret, out, DetFrame>>

\* line 129: after the while loop, listener.send(msg)
An129(t) ==
    /\ pc[t] = "an122"
    /\ ~(loc[t].j <= loc[t].i + Len(changes) /\ loc[t].j < Len(loc[t].a.rows))
    /\ DetSend(t, "an130")
    /\ UNCHANGED <<msg, console, ret, DetFrame>>

\* line 130: msg.reset(), and on to the next row
An130(t) ==
    /\ pc[t] = "an130"
    /\ msg' = [msg EXCEPT ![t] = Reset]
    /\ loc' = [loc EXCEPT ![t].i = @ + 1]
    /\ pc' = [pc EXCEPT ![t] = "an102"]
    /\ UNCHANGED <<console, ctx, ret, out, DetFrame>>

analyze(t) ==
    \/ An94(t) \/ An102(t) \/ An114(t) \/ An119(t) \/ An120(t)
    \/ An122(t) \/ An127(t) \/ An129(t) \/ An130(t)

----------------------------------------------------------------------------
(* The worker loops: _analyze_thread (historical_data.py),                  *)
(* check_overbought_oversold (rsi.py), check_for_crosses and                *)
(* check_for_MACD_signal_crosses (moving_averages.py)                       *)

\* What a step of a worker loop leaves alone.
WorkerFrame == <<queueVars, chanVars, trackerVars, calls, symbol, data, func, lsn, started, given, computed>>

\* A call made by the worker loop itself has raised.
Broke(call, exc) ==
    [det |-> call, local |-> FALSE, since |-> Len(consoleLog),
     kind |-> "raised", val |-> <<>>, exc |-> exc]

\* An exception reaches the top of the worker's function: none of the loops
\* has a try statement, so the thread ends.
WorkerDies(t, call, exc) ==
    /\ pc' = [pc EXCEPT ![t] = "dead"]
    /\ out' = [out EXCEPT ![t] = Broke(call, exc)]

\* symbol = symbols.pop(), returning to label back
WorkerPop(t, from, back) ==
    /\ pc[t] = from
    /\ pc' = [pc EXCEPT ![t] = "pop37"]
    /\ ctx' = [ctx EXCEPT ![t] = back]

\* listener.send(msg) in a worker loop, returning to label back
WorkerSend(t, back) ==
    IF lsn = "class"
    THEN WorkerDies(t, "send", "TypeError") /\ ctx' = ctx
    ELSE /\ pc' = [pc EXCEPT ![t] = "send71"]
         /\ ctx' = [ctx EXCEPT ![t] = back]
         /\ out' = out

\* _analyze_thread line 134 and line 140: symbol = symbols.pop()
At134(t) ==
    /\ WorkerPop(t, "at134", "at135")
    /\ UNCHANGED <<msg, loc, ret, out, WorkerFrame>>

At140(t) ==
    /\ WorkerPop(t, "at140", "at135")
    /\ UNCHANGED <<msg, loc, ret, out, WorkerFrame>>

\* lines 135-138: while symbol is not None: msg = Message(); msg.add_line(...);
\* listener.send(msg).  Leaving the loop ends the thread.
At135(t) ==
    /\ pc[t] = "at135"
    /\ IF symbol[t] = "None"
       THEN /\ pc' = [pc EXCEPT ![t] = "done"]
            /\ UNCHANGED <<msg, ctx, out>>
       ELSE /\ msg' = [msg EXCEPT ![t] = AddLine(<<>>, Line(t, "analyzing", symbol[t], 0))]
            /\ WorkerSend(t, "at139")
    /\ UNCHANGED <<loc, ret, WorkerFrame>>

\* line 139: analyze(symbol, tracker, days, listener)
At139(t) ==
    /\ pc[t] = "at139"
    /\ out' = [out EXCEPT ![t] = Called("analyze", TRUE)]
    /\ loc' = [loc EXCEPT ![t] = NoLocals]
    /\ ret' = [ret EXCEPT ![t] = "at140"]
    /\ pc' = [pc EXCEPT ![t] = "an94"]
    /\ UNCHANGED <<msg, ctx, WorkerFrame>>

_analyze_thread(t) == At134(t) \/ At135(t) \/ At139(t) \/ At140(t)

\* check_overbought_oversold line 80: symbol = symbols.pop()
Co80(t) ==
    /\ WorkerPop(t, "co80", "co81")
    /\ UNCHANGED <<msg, loc, ret, out, WorkerFrame>>

\* lines 81-84: while symbol is not None: msg = Message(); add_line; send
Co81(t) ==
    /\ pc[t] = "co81"
    /\ IF symbol[t] = "None"
       THEN /\ pc' = [pc EXCEPT ![t] = "done"]
            /\ UNCHANGED <<msg, ctx, out>>
       ELSE /\ msg' = [msg EXCEPT ![t] = AddLine(<<>>, Line(t, "Checking", symbol[t], 0))]
            /\ WorkerSend(t, "co86")
    /\ UNCHANGED <<loc, ret, WorkerFrame>>

\* line 86: df = rsi(symbol, start, end, period), with local left at False
Co86(t) ==
    /\ pc[t] = "co86"
    /\ console' = console \o GetDataPrints(t, symbol[t], FALSE)
    /\ LET r == rsi(symbol[t], RSI_PERIOD, FALSE)
       IN  IF r.exc # "none"
           THEN /\ WorkerDies(t, "rsi", r.exc)
                /\ loc' = loc
           ELSE /\ loc' = [loc EXCEPT ![t].a = r.frame, ![t].i = 0]
                /\ pc' = [pc EXCEPT ![t] = "co88"]
                /\ out' = out
    /\ UNCHANGED <<msg, ctx, ret, DetFrame>>

\* check_for_crosses lines 329-330: msg = Message(); symbol = lst.pop()
Cc330(t) ==
    /\ WorkerPop(t, "cc330", "cc331")
    /\ msg' = [msg EXCEPT ![t] = <<>>]
    /\ UNCHANGED <<loc, ret, out, WorkerFrame>>

\* lines 331-333: while symbol is not None: msg.add_line(...); listener.send(msg)
Cc331(t) ==
    /\ pc[t] = "cc331"
    /\ IF symbol[t] = "None"
       THEN /\ pc' = [pc EXCEPT ![t] = "done"]
            /\ UNCHANGED <<msg, ctx, out>>
       ELSE /\ msg' = [msg EXCEPT ![t] = AddLine(@, Line(t, "Analyzing symbol", "None", 0))]
            /\ WorkerSend(t, "cc334")
    /\ UNCHANGED <<loc, ret, WorkerFrame>>

\* lines 334-336: msg.reset(); crosses = golden_cross(symbol, listener,
\* SHORT_MOVING_AVERAGE, LONG_MOVING_AVERAGE, start, end), local left at False
Cc334(t) ==
    /\ pc[t] = "cc334"
    /\ msg' = [msg EXCEPT ![t] = Reset]
    /\ out' = [out EXCEPT ![t] = Called("golden_cross", FALSE)]
    /\ loc' = [loc EXCEPT ![t] = Locals(SHORT_MOVING_AVERAGE, LONG_MOVING_AVERAGE,
                                        NoFrame, NoFrame, 0, 0, FALSE)]
    /\ ret' = [ret EXCEPT ![t] = "cc337"]
    /\ pc' = [pc EXCEPT ![t] = "gc295"]
    /\ UNCHANGED <<ctx, WorkerFrame>>

\* check_for_MACD_signal_crosses lines 352-353: symbol = lst.pop(); msg = Message()
Cm352(t) ==
    /\ WorkerPop(t, "cm352", "cm355")
    /\ msg' = [msg EXCEPT ![t] = <<>>]
    /\ UNCHANGED <<loc, ret, out, WorkerFrame>>

\* lines 355-357: while symbol is not None: msg.add_line(...); listener.send(msg)
Cm355(t) ==
    /\ pc[t] = "cm355"
    /\ IF symbol[t] = "None"
       THEN /\ pc' = [pc EXCEPT ![t] = "done"]
            /\ UNCHANGED <<msg, ctx, out>>
       ELSE /\ msg' = [msg EXCEPT ![t] = AddLine(@, Line(t, "Analyzing", symbol[t], 0))]
            /\ WorkerSend(t, "cm358")
    /\ UNCHANGED <<loc, ret, WorkerFrame>>

\* lines 358-359: msg.reset(); signals = MACD_signal(symbol, start, end,
\* local=True, dir="../data"): the listener is left out, so `start` lands in its
\* place, `end` in that of start, and the call raises TypeError for the
\* missing argument end.
Cm358(t) ==
    /\ pc[t] = "cm358"
    /\ msg' = [msg EXCEPT ![t] = Reset]
    /\ WorkerDies(t, "MACD_signal", "TypeError")
    /\ UNCHANGED <<ctx, loc, ret, WorkerFrame>>

\* The statements below are written down as the source has them, and no
\* specification takes them: rsi and golden_cross are called without local=True
\* and so never return to lines 87 and 337.

\* check_overbought_oversold lines 87-100: a message of three lines for every
\* day with RSI >= 80 and for every day with RSI <= 20
Co88(t) ==
    /\ pc[t] = "co88"
    /\ LET rows == loc[t].a.rows
           i == loc[t].i
       IN  IF ~loc[t].a.some \/ i >= Len(rows)
           THEN /\ pc' = [pc EXCEPT ![t] = "co101"]
                /\ UNCHANGED <<msg, ctx, out, loc>>
           ELSE IF rows[i + 1].rsi \in {"high", "low"}
           THEN /\ msg' = [msg EXCEPT ![t] =
                             <<Line(t, "rule", symbol[t], 0),
                               Line(t, IF rows[i + 1].rsi = "high" THEN "was overbought"
                                       ELSE "was oversold", symbol[t], i),
                               Line(t, "rule", symbol[t], 0)>>]
                /\ loc' = [loc EXCEPT ![t].i = i + 1]
                /\ WorkerSend(t, "co88")
           ELSE /\ loc' = [loc EXCEPT ![t].i = i + 1]
                /\ UNCHANGED <<msg, pc, ctx, out>>
    /\ UNCHANGED <<ret, WorkerFrame>>

\* line 101: symbol = symbols.pop()
Co101(t) ==
    /\ WorkerPop(t, "co101", "co81")
    /\ UNCHANGED <<msg, loc, ret, out, WorkerFrame>>

\* check_for_crosses lines 337-343: a message of two lines for every cross,
\* then symbol = lst.pop()
Cc337(t) ==
    /\ IF pc[t] = "cc337" /\ loc[t].i < Len(out[t].val)
       THEN /\ msg' = [msg EXCEPT ![t] =
                         AddLine(AddLine(@, Line(t, "rule", symbol[t], 0)),
                                 Line(t, "Cross above", symbol[t], out[t].val[loc[t].i + 1]))]
            /\ loc' = [loc EXCEPT ![t].i = @ + 1]
            /\ WorkerSend(t, "cc341")
       ELSE /\ WorkerPop(t, "cc337", "cc331")
            /\ UNCHANGED <<msg, loc, out>>
    /\ UNCHANGED <<ret, WorkerFrame>>

\* line 341: msg.reset()
Cc341(t) ==
    /\ pc[t] = "cc341"
    /\ msg' = [msg EXCEPT ![t] = Reset]
    /\ pc' = [pc EXCEPT ![t] = "cc337"]
    /\ UNCHANGED <<ctx, loc, ret, out, WorkerFrame>>

----------------------------------------------------------------------------
(* The pool: analyze_symbols starts the worker threads on one queue; the    *)
(* one of historical_data.py joins them and calls tracker.summarize()       *)

\* The functions a worker thread runs, and the first statement of each.
Funcs == {"_analyze_thread", "check_overbought_oversold", "check_for_crosses",
          "check_for_MACD_signal_crosses"}
Entry(f) ==
    CASE f = "_analyze_thread" -> "at134"
      [] f = "check_overbought_oversold" -> "co80"
      [] f = "check_for_crosses" -> "cc330"
      [] f = "check_for_MACD_signal_crosses" -> "cm352"

\* What the workers get as listener: historical_data.analyze_symbols and the
\* script of rsi.py hand them a Listener(); moving_averages.analyze_symbols
\* line 386 hands them the class Listener.
Listeners(f) ==
    IF f \in {"check_for_crosses", "check_for_MACD_signal_crosses"}
    THEN {"instance", "class"}
    ELSE {"instance"}

\* The price files the pool is tried with: none; one too short for a 14-day
\* RSI; one whose range holds an oversold day, the day after it and one more
\* day at a higher close; one whose range ends on an oversold day.
TooShort == File(0, <<Row(1, "mid", FALSE, FALSE)>>)
Eventful == File(RSI_PERIOD + 1, <<Row(1, "low", FALSE, FALSE), Row(1, "mid", FALSE, FALSE),
                                   Row(2, "mid", FALSE, FALSE)>>)
Trailing == File(RSI_PERIOD + 1, <<Row(2, "mid", FALSE, FALSE), Row(1, "low", FALSE, FALSE)>>)
PoolFiles == {Missing, TooShort, Eventful, Trailing}

\* The files that take analyze through its loop, and the queues the pool is
\* tried with: at most MaxBusy of their entries name a symbol with such a file.
MaxBusy == 2
Busy(files, init) == {i \in DOMAIN init : files[init[i]] \in {Eventful, Trailing}}
PoolInputs ==
    {in \in [files : [Symbols -> PoolFiles], init : SeqsUpTo(Symbols, MaxLen)] :
        /\ in.files["B"] \in {Missing, TooShort}
        /\ Cardinality(Busy(in.files, in.init)) <= MaxBusy}

\* x = threading.Thread(target=..., args=...); x.start(), for the next thread
Start(t) ==
    /\ started = t - 1
    /\ pc[t] = "idle"
    /\ started' = t
    /\ pc' = [pc EXCEPT ![t] = Entry(func)]
    /\ UNCHANGED <<queueVars, msg, chanVars, trackerVars, ctx, calls, symbol,
                   data, func, lsn, loc, ret, out, given, computed>>

\* The threads whose function has returned or was ended by an exception.
Stopped == {t \in Threads : pc[t] \in {"done", "dead"}}

\* tracker.summarize() called without waiting for the threads.
SummarizeWithoutJoin ==
    /\ func = "_analyze_thread"
    /\ summary.result = "none"
    /\ summary' = SummarizeResult
    /\ UNCHANGED <<trackerFields, tlock, recChange, recDay, recTmp, recSnap, occDone, chgDone,
                   threadVars, queueVars, msg, chanVars, poolVars>>

\* historical_data.analyze_symbols lines 153-156: every thread joined,
\* tracker.summarize()
Summarize ==
    /\ func = "_analyze_thread"
    /\ started = NumThreads
    /\ Stopped = Threads
    /\ summary.result = "none"
    /\ summary' = SummarizeResult
    /\ UNCHANGED <<trackerFields, tlock, recChange, recDay, recTmp, recSnap, occDone, chgDone,
                   threadVars, queueVars, msg, chanVars, poolVars>>

Init ==
    /\ \E in \in PoolInputs : QueueConstructed(in.init) /\ data = in.files
    /\ ChannelsConstructed
    /\ TrackerConstructed(Days)
    /\ pc = [t \in Threads |-> "idle"]
    /\ ctx = [t \in Threads |-> "idle"]
    /\ calls = [t \in Threads |-> 0]
    /\ symbol = [t \in Threads |-> "None"]
    /\ func \in Funcs
    /\ lsn \in Listeners(func)
    /\ started = 0
    /\ NothingComputed
    /\ loc = [t \in Threads |-> NoLocals]
    /\ ret = [t \in Threads |-> "idle"]
    /\ out = [t \in Threads |-> NoOutcome]

Next ==
    \/ \E t \in Threads :
          \/ Start(t)
          \/ Pop(t)
          \/ Send(t)
          \/ RecordOccurrenceBody(t)
          \/ RecordChangeBody(t)
          \/ _analyze_thread(t)
          \/ analyze(t)
          \/ Co80(t) \/ Co81(t) \/ Co86(t)
          \/ Cc330(t) \/ Cc331(t) \/ Cc334(t) \/ Gc295(t)
          \/ Cm352(t) \/ Cm355(t) \/ Cm358(t)
    \/ Summarize

Spec == Init /\ [][Next]_vars

\* C4: on a queue built from at least one symbol, a failure while one symbol
\* is processed stays inside that loop iteration: no worker thread is ended by
\* an exception, a worker stops only after pop() has returned None, and once
\* every worker has stopped no symbol is left in the queue.
C4_FailureContained ==
    initList # <<>> =>
        /\ \A t \in Stopped : pc[t] = "done" /\ symbol[t] = "None"
        /\ (started = NumThreads /\ Stopped = Threads) => Remaining = {}

\* Every worker of _analyze_thread has been ended by an exception and a symbol
\* is still in the queue.
PoolAbandonsQueue ==
    /\ func = "_analyze_thread"
    /\ \A t \in Threads : pc[t] = "dead"
    /\ Remaining # {}

\* The shared locks a thread holds: that of the SyncedList, of the Listener
\* and of the tracker.
LocksHeld(t) ==
    {l \in {"queue", "listener", "tracker"} :
        \/ l = "queue" /\ qlock = t
        \/ l = "listener" /\ llock = t
        \/ l = "tracker" /\ tlock = t}

\* A thread is about to enter a `with self._lock:` of pop, send,
\* record_occurrence or record_change.
AboutToLock(t) == pc[t] \in {"pop37", "send71", "an114", "an122"}

\* C23: in every reachable state no worker holds more than one of the queue
\* lock, the Listener lock and the tracker lock, and none asks for a lock
\* while it holds one, so no lock-ordering deadlock is reachable.
C23_OneLockAtATime ==
    \A t \in Threads :
        /\ Cardinality(LocksHeld(t)) <= 1
        /\ AboutToLock(t) => LocksHeld(t) = {}

\* Two workers are inside critical sections of different locks at once.
C23_Witness ==
    \E t, u \in Threads :
        /\ t # u
        /\ LocksHeld(t) = {"listener"}
        /\ LocksHeld(u) = {"tracker"}

\* A thread is at a statement that fetches price data or computes: the call
\* of rsi, moving_average, MACD, get_data or EMA, the scan of the rows, the
\* price change of lines 123-124.
FetchingOrComputing(t) ==
    pc[t] \in {"an94", "an102", "an122", "co86", "gc295", "gc296", "gc303",
               "ms255", "ms264", "ms268"}

\* C24: a worker that is fetching price data or computing an indicator holds
\* none of the three locks: each lock has been released before the worker's
\* next fetch or computation step begins.
C24_NoLockWhileWorking ==
    \A t \in Threads : FetchingOrComputing(t) => LocksHeld(t) = {}

\* A worker is about to fetch the prices of a symbol it popped and sent a
\* message about, while another worker is inside a critical section.
C24_Witness ==
    \E t, u \in Threads :
        /\ t # u
        /\ pc[t] = "an94"
        /\ LocksHeld(u) # {}

\* A thread is inside a listener.send(msg) that its worker loop made after
\* popping a symbol and before the statement that fetches the symbol's
\* prices: the send returns to the call of analyze, rsi, golden_cross or
\* MACD_signal.
SendingBeforeFetch(t) ==
    /\ pc[t] \in {"send71", "send72", "send73"}
    /\ ctx[t] \in {"at139", "co86", "cc334", "cm358"}

\* C27: for each symbol a worker fetches, then computes, then reports: within
\* one loop iteration no send happens before the symbol's fetch has
\* completed, and a worker leaves its loop only when pop() has returned None.
C27_FetchBeforeReport ==
    \A t \in Threads :
        /\ ~SendingBeforeFetch(t)
        /\ pc[t] \in {"done", "dead"} => (pc[t] = "done" /\ symbol[t] = "None")

\* The lines the holder of the Listener's lock has printed of its message.
HolderLines(t) == SubSeq(sendLines[t], 1, sendIdx[t])

\* The last n lines of the console.
ConsoleTail(n) == SubSeq(console, Len(console) - n + 1, Len(console))

\* C31: while the workers run, every line reaches the console inside the
\* critical section of Listener.send, so no line from outside a send stands
\* between two lines of a message block: when the thread holding the lock
\* has just printed the k-th line of its message, the last k lines of the
\* console are the first k lines of that message.
C31_NoLineInsideBlock ==
    \A t \in Threads :
        (/\ llock = t /\ pc[t] = "send73" /\ sendIdx[t] >= 1
         /\ Len(console) >= 1 /\ console[Len(console)].by = t)
        => /\ Len(console) >= sendIdx[t]
           /\ ConsoleTail(sendIdx[t]) = HolderLines(t)

----------------------------------------------------------------------------
(* historical_data.analyze_symbols to its end: the threads of               *)
(* _analyze_thread, the joins, tracker.summarize()                          *)

\* One step of worker thread t of _analyze_thread.
Worker(t) ==
    \/ Start(t)
    \/ Pop(t)
    \/ Send(t)
    \/ RecordOccurrenceBody(t)
    \/ RecordChangeBody(t)
    \/ _analyze_thread(t)
    \/ analyze(t)

\* The queues and files the run is followed on to its end: at most one entry
\* of the queue names a symbol whose file takes analyze through its loop.
DrainInputs == {in \in PoolInputs : Cardinality(Busy(in.files, in.init)) <= 1}

InitDrain ==
    /\ \E in \in DrainInputs : QueueConstructed(in.init) /\ data = in.files
    /\ ChannelsConstructed
    /\ TrackerConstructed(Days)
    /\ pc = [t \in Threads |-> "idle"]
    /\ ctx = [t \in Threads |-> "idle"]
    /\ calls = [t \in Threads |-> 0]
    /\ symbol = [t \in Threads |-> "None"]
    /\ func = "_analyze_thread"
    /\ lsn = "instance"
    /\ started = 0
    /\ NothingComputed
    /\ loc = [t \in Threads |-> NoLocals]
    /\ ret = [t \in Threads |-> "idle"]
    /\ out = [t \in Threads |-> NoOutcome]

NextDrain == (\E t \in Threads : Worker(t)) \/ Summarize

\* Every started thread keeps being scheduled, and the main thread goes on to
\* summarize once its joins have returned.
SpecDrain ==
    /\ InitDrain
    /\ [][NextDrain]_vars
    /\ \A t \in Threads : WF_vars(Worker(t))
    /\ WF_vars(Summarize)

\* Every symbol of the queue has a price file, so every fetch hands back data.
FetchesComplete == \A i \in DOMAIN initList : data[initList[i]].file

\* Every worker has left its loop after pop() returned None.
AllSawNone == \A t \in Threads : pc[t] = "done" /\ symbol[t] = "None"

\* C25: for a finite symbol list whose fetches all complete, every worker
\* eventually sees pop() return None and terminates, and summarize() is then
\* eventually executed; no interleaving leaves a worker blocked forever.
C25_PoolDrains ==
    FetchesComplete => (<>AllSawNone /\ <>(AllSawNone /\ summary.result # "none"))

\* C26: summarize() runs only after every worker thread has terminated: the
\* step that runs it finds all threads started and stopped and changes no
\* tracker field, and from then on no record_occurrence, record_change or
\* Listener.send happens.
C26_SummarizeAfterJoin ==
    [][/\ summary' # summary =>
             /\ started = NumThreads
             /\ Stopped = Threads
             /\ \A t \in Threads : LocksHeld(t) = {}
             /\ UNCHANGED trackerFields
       /\ summary.result # "none" =>
             UNCHANGED <<trackerFields, occDone, chgDone, consoleLog, console, pc>>]_vars

\* summarize has run after workers recorded an occurrence and a change.
C26_Witness ==
    /\ summary.result # "none"
    /\ occDone > 0
    /\ \E d \in DOMAIN chgDone : chgDone[d] > 0

----------------------------------------------------------------------------
(* analyze on every short RSI series: what it records in the tracker        *)

MaxSeries == 4

\* The rows a series is made of: a close of 1 or 2, an RSI of at most 20
\* ("low") or not.
SeriesRows == {Row(price, level, FALSE, FALSE) : price \in {1, 2}, level \in {"low", "mid"}}

\* The price files analyze is followed on: long enough for the 14-day RSI,
\* with every series of 1..MaxSeries rows between start and end.
SeriesFiles ==
    {File(RSI_PERIOD + 1, win) : win \in SeqsUpTo(SeriesRows, MaxSeries) \ {<<>>}}

\* Three of them: an oversold day, the day after it and two more days, the
\* close higher on the first of these; the same with falling closes and an
\* oversold last day; two oversold days, each followed by a day above 20.
Lasting == File(RSI_PERIOD + 1, <<Row(1, "low", FALSE, FALSE), Row(1, "mid", FALSE, FALSE),
                                  Row(2, "mid", FALSE, FALSE), Row(1, "mid", FALSE, FALSE)>>)
Falling == File(RSI_PERIOD + 1, <<Row(2, "low", FALSE, FALSE), Row(2, "mid", FALSE, FALSE),
                                  Row(1, "mid", FALSE, FALSE), Row(1, "low", FALSE, FALSE)>>)
TwoRuns == File(RSI_PERIOD + 1, <<Row(1, "low", FALSE, FALSE), Row(2, "mid", FALSE, FALSE),
                                  Row(1, "low", FALSE, FALSE), Row(2, "mid", FALSE, FALSE)>>)
PairFiles == {Lasting, Falling, TwoRuns}

\* One more: an oversold day followed by MaxSeries days above 20, more days
\* than the tracker has entries, the close going between 1 and 2.
Extended ==
    File(RSI_PERIOD + 1,
         <<Row(1, "low", FALSE, FALSE)>>
            \o [k \in 1..MaxSeries |-> Row(IF k % 2 = 0 THEN 2 ELSE 1, "mid", FALSE, FALSE)])

\* The runs: symbol A alone in the queue with any of these files; symbols A and
\* B in the queue, A with one of the three files and B with the eventful one,
\* so that two workers record at the same time.
AnalyzeInputs ==
    {[files |-> [s \in Symbols |-> IF s = "A" THEN a ELSE Missing], init |-> <<"A">>] :
        a \in SeriesFiles \cup {Extended}}
    \cup
    {[files |-> [s \in Symbols |-> IF s = "A" THEN a ELSE Eventful], init |-> <<"A", "B">>] :
        a \in PairFiles}

InitAnalyze ==
    /\ \E in \in AnalyzeInputs : QueueConstructed(in.init) /\ data = in.files
    /\ ChannelsConstructed
    /\ TrackerConstructed(Days)
    /\ pc = [t \in Threads |-> "idle"]
    /\ ctx = [t \in Threads |-> "idle"]
    /\ calls = [t \in Threads |-> 0]
    /\ symbol = [t \in Threads |-> "None"]
    /\ func = "_analyze_thread"
    /\ lsn = "instance"
    /\ started = 0
    /\ NothingComputed
    /\ loc = [t \in Threads |-> NoLocals]
    /\ ret = [t \in Threads |-> "idle"]
    /\ out = [t \in Threads |-> NoOutcome]

NextAnalyze == (\E t \in Threads : Worker(t)) \/ Summarize

SpecAnalyze == InitAnalyze /\ [][NextAnalyze]_vars

\* The rows analyze goes through for a symbol: those rsi hands it.
RsiRows(sym) == rsi(sym, RSI_PERIOD, TRUE).frame.rows

\* The rows of a series, counted from 1, whose RSI is not <= 20 while the
\* RSI of the row before is.
ExitRows(rows) ==
    {k \in 2..Len(rows) : rows[k - 1].rsi = "low" /\ ~(rows[k].rsi = "low")}

\* Every worker has left its loop in the regular way: each symbol of the
\* queue was analyzed to the end.
AnalysesDone == started = NumThreads /\ \A t \in Threads : pc[t] = "done"

\* The number of such rows in the series of all symbols of the queue.
ExpectedOccurrences ==
    SumSeq([n \in DOMAIN initList |-> Cardinality(ExitRows(RsiRows(initList[n])))])

\* C32: analyze calls record_occurrence only on a row whose RSI is not <= 20
\* and whose row before has an RSI <= 20 (the end of a run of oversold days),
\* and once for each such row: when all symbols are analyzed, the calls made
\* and the occurrences counted are as many as there are such rows.
C32_OccurrencePerRun ==
    /\ \A t \in Threads :
          pc[t] \in {"ro42", "ro42w"} => (loc[t].i + 1) \in ExitRows(loc[t].a.rows)
    /\ AnalysesDone => (occDone = ExpectedOccurrences /\ occurrences = ExpectedOccurrences)

\* The series with two oversold runs and the eventful one are analyzed: three
\* occurrences.
C32_Witness ==
    /\ AnalysesDone
    /\ data["A"] = TwoRuns /\ initList = <<"A", "B">>
    /\ occurrences = 3

\* The exit rows of a series that have a row d rows later.
HorizonRows(rows, d) == {k \in ExitRows(rows) : k + d <= Len(rows)}

\* How many changes d days after an occurrence the series of the queue's
\* symbols hold, and the sum of these changes.
ExpectedChangeCount(d) ==
    SumSeq([n \in DOMAIN initList |-> Cardinality(HorizonRows(RsiRows(initList[n]), d))])
ChangeSumOf(rows, d) ==
    SumSeq([k \in DOMAIN rows |->
               IF k \in HorizonRows(rows, d)
               THEN PriceChange(rows[k].price, rows[k + d].price) ELSE 0])
ExpectedChangeSum(d) ==
    SumSeq([n \in DOMAIN initList |-> ChangeSumOf(RsiRows(initList[n]), d)])

\* A record_change call of analyze is running in thread t.
RecordingChange(t) ==
    pc[t] \in {"rc53", "rc53w", "rc54", "rc54w", "rc55", "rc56", "rc56w"}

\* C33: for an occurrence at row i of a series of L rows analyze calls
\* record_change once for each horizon k = 1..min(days, L - 1 - i) and for no
\* other, with change = (price[i + k] - price[i]) / price[i]: every call has a
\* day in 1..days for which the series has a row, and that change; when all
\* symbols are analyzed, the calls for each day, the changes counted and
\* their sum are those of all occurrences that have a row that many days on.
C33_ChangePerHorizon ==
    /\ \A t \in Threads :
          RecordingChange(t) =>
              LET rows == loc[t].a.rows
                  i == loc[t].i
                  k == recDay[t]
              IN  /\ (i + 1) \in ExitRows(rows)
                  /\ k = loc[t].j - i
                  /\ k \in 1..Days
                  /\ i + k <= Len(rows) - 1
                  /\ recChange[t] * rows[i + 1].price
                        = ChangeUnit * (rows[i + k + 1].price - rows[i + 1].price)
    /\ AnalysesDone =>
          \A d \in 1..Days :
              /\ chgDone[d] = ExpectedChangeCount(d)
              /\ num_changes[d] = ExpectedChangeCount(d)
              /\ changes[d] = ExpectedChangeSum(d)

\* The falling series and the eventful one are analyzed: two changes after
\* one day, a fall and a rise, and one after two days, a fall.
C33_Witness ==
    /\ AnalysesDone
    /\ data["A"] = Falling /\ initList = <<"A", "B">>
    /\ chgDone[1] = 2 /\ chgDone[2] = 1
    /\ changes[1] = 1 /\ changes[2] = -1

\* How many of the changes d days after an occurrence are rises.
ExpectedIncreaseCount(d) ==
    SumSeq([n \in DOMAIN initList |->
               LET rows == RsiRows(initList[n])
               IN  Cardinality({k \in HorizonRows(rows, d) : rows[k + d].price > rows[k].price})])

\* The tracker's fields as the queue's symbols and their price files alone
\* determine them.
ExpectedFields ==
    <<ExpectedOccurrences,
      [d \in 1..Days |-> ExpectedChangeSum(d)],
      [d \in 1..Days |-> ExpectedChangeCount(d)],
      [d \in 1..Days |-> ExpectedIncreaseCount(d)]>>

\* C34: when no call fails, the tracker's fields after all workers have ended
\* are determined by the symbols of the queue and their price data alone,
\* whichever worker analyzed which symbol and however the workers' steps
\* were interleaved.
C34_TrackerDeterminate == AnalysesDone => trackerFields = ExpectedFields

\* A run in which the second worker analyzed A and the first one B has ended.
C34_Witness ==
    /\ AnalysesDone
    /\ data["A"] = Lasting /\ initList = <<"A", "B">>
    /\ \E k \in DOMAIN console : console[k] = Line(2, "analyzing", "A", 0)
    /\ \E k \in DOMAIN console : console[k] = Line(1, "analyzing", "B", 0)
    /\ occurrences = 2 /\ num_increases[1] = 2 /\ num_increases[2] = 0

\* The figures summarize printed under "Probability of Increase".
Probabilities ==
    {summary.printed[k] : k \in {n \in DOMAIN summary.printed :
                                    summary.printed[n].section = "probability"}}

\* C35: in every state of the workers of _analyze_thread, for every day d,
\* _num_changes[d] <= _occurrences and _num_changes[d + 1] <= _num_changes[d];
\* _num_increases[d] lies between 0 and _num_changes[d], so every probability
\* summarize prints, _num_increases[d] / _occurrences, lies between 0 and 1.
C35_CountsBounded ==
    /\ \A d \in 1..Days :
          /\ num_changes[d] <= occurrences
          /\ d < Days => num_changes[d + 1] <= num_changes[d]
          /\ 0 <= num_increases[d] /\ num_increases[d] <= num_changes[d]
    /\ \A f \in Probabilities : f.den = occurrences /\ 0 <= f.num /\ f.num <= f.den

\* summarize has printed after two occurrences, two changes a day later, both
\* rises, and one change two days later.
C35_Witness ==
    /\ summary.result = "ok"
    /\ Cardinality(Probabilities) = Days
    /\ occurrences = 2
    /\ num_changes[1] = 2 /\ num_changes[2] = 1
    /\ num_increases[1] = 2 /\ num_increases[2] = 0

\* The lines of the messages Listener.send was handed.
SentLines ==
    UNION {{consoleLog[k][n] : n \in DOMAIN consoleLog[k]} : k \in DOMAIN consoleLog}

\* analyze has returned to the loop of _analyze_thread in thread t.
AnalyzeReturned(t) ==
    pc[t] = "at140" /\ out[t].det = "analyze" /\ out[t].kind = "returned"

\* C38: when analyze returns, the "was oversold" line of every oversold row
\* of the series has been handed to Listener.send, the rows of a run that
\* lasts to the final row included.
C38_OversoldLinesSent ==
    \A t \in Threads :
        AnalyzeReturned(t) =>
            \A k \in DOMAIN RsiRows(symbol[t]) :
                RsiRows(symbol[t])[k].rsi = "low" =>
                    Line(t, "was oversold", symbol[t], k - 1) \in SentLines

----------------------------------------------------------------------------
(* MACD_signal and the data it lacks *)

\* The MACD_signal calls that have ended on a file that is there but too short
\* for one of the values the call needs: fewer than 26 + 9 rows before `start`,
\* or fewer than 201 rows for the 200-day EMA.
EndedShortOfData ==
    {t \in Threads : /\ out[t].det = "MACD_signal"
                     /\ out[t].kind \in {"returned", "raised"}
                     /\ pc[t] = ret[t]
                     /\ GetData(symbol[t], out[t].local) = "data"
                     /\ \/ data[symbol[t]].pre < MACD_LONG_AVERAGE + MACD_SIGNAL_PERIOD
                        \/ Rows(symbol[t]) < EMA_PERIOD + 1}

\* The messages thread t has handed to Listener.send since its last detector
\* call began.
MessagesSent(t) == (out[t].since + 1)..Len(consoleLog)

\* C11: MACD_signal never raises NotEnoughDataError; when the data is too short
\* for MACD, Signal or the 200-day EMA it has sent a message through the
\* listener and returns an empty list.
C11_NotEnoughDataIsCaught ==
    /\ \A t \in Threads : out[t].det = "MACD_signal" => out[t].exc # "NotEnoughDataError"
    /\ \A t \in EndedShortOfData :
          /\ out[t].kind = "returned"
          /\ out[t].val = <<>>
          /\ MessagesSent(t) # {}

----------------------------------------------------------------------------
(* The indicators as computations on a price series                         *)
(* (technical_analysis/moving_averages.py, technical_analysis/rsi.py)       *)

MaxCloses == 5
MaxPeriod == 3

\* The adjusted closes a series is tried with.
Prices == {10, 11, 12}

\* A number of a frame: the quotient num / den of two integers, den > 0, or
\* NaN (den = 0).
Ratio(num, den) == [num |-> num, den |-> den]
NaN == [num |-> 0, den |-> 0]
Defined(x) == x.den # 0

\* a <= b and a > b as Python and NumPy have them: False when either is NaN.
StrictlyBelow(a, b) == Defined(a) /\ Defined(b) /\ a.num * b.den < b.num * a.den
AtOrBelow(a, b) == Defined(a) /\ Defined(b) /\ a.num * b.den <= b.num * a.den
AtOrAbove(a, b) == Defined(a) /\ Defined(b) /\ a.num * b.den >= b.num * a.den
Above(a, b) == Defined(a) /\ Defined(b) /\ a.num * b.den > b.num * a.den

\* What get_data fetched: nothing (None), or the rows `closes` in date order,
\* of which row `first` is the first one dated `start` or later and row `last`
\* the last one dated `end` or earlier.  A row's date is its position.
Series(closes, first, last) == [some |-> TRUE, closes |-> closes, first |-> first, last |-> last]
NoSeries == [some |-> FALSE, closes |-> <<>>, first |-> 1, last |-> 0]

\* closes[from] + ... + closes[to]
RECURSIVE SumFrom(_, _, _)
SumFrom(closes, from, to) ==
    IF from > to THEN 0 ELSE closes[from] + SumFrom(closes, from + 1, to)

\* df["Adj Close"].rolling(window=n).mean(), line 86: NaN on the first n - 1 rows
Rolling(closes, n) ==
    [i \in 1..Len(closes) |-> IF i >= n THEN Ratio(SumFrom(closes, i - n + 1, i), n) ELSE NaN]

\* frame[start:end]: the rows first..last of a column, each with its date
Slice(column, first, last) ==
    [k \in 1..(IF last >= first THEN last - first + 1 ELSE 0) |->
        [day |-> first + k - 1, value |-> column[first + k - 1]]]

\* moving_average with the test of line 78 off by one: a start with n - 1 rows
\* before it is let through.
moving_average_one_short(series, n) ==
    IF ~series.some THEN [exc |-> "none", some |-> FALSE, rows |-> <<>>]
    ELSE IF series.first - 1 < n - 1 THEN [exc |-> "NotEnoughDataError", some |-> FALSE, rows |-> <<>>]
    ELSE [exc |-> "none", some |-> TRUE,
          rows |-> Slice(Rolling(series.closes, n), series.first, series.last)]

\* moving_average lines 66-88 on what get_data fetched: None for None,
\* NotEnoughDataError when fewer than n rows precede `start`, else the rolling
\* mean cut to start..end.
moving_average(series, n) ==
    IF ~series.some THEN [exc |-> "none", some |-> FALSE, rows |-> <<>>]
    ELSE IF series.first - 1 < n THEN [exc |-> "NotEnoughDataError", some |-> FALSE, rows |-> <<>>]
    ELSE [exc |-> "none", some |-> TRUE,
          rows |-> Slice(Rolling(series.closes, n), series.first, series.last)]

\* golden_cross lines 305-311: for i in range(len(days) - 1), days[i + 1] is a
\* cross when short <= long on days[i] and short > long on days[i + 1]
RECURSIVE CrossLoop(_, _, _)
CrossLoop(short_average, long_average, i) ==
    IF i + 1 > Len(short_average) - 1 THEN <<>>
    ELSE (IF /\ AtOrBelow(short_average[i + 1].value, long_average[i + 1].value)
             /\ Above(short_average[i + 2].value, long_average[i + 2].value)
          THEN <<short_average[i + 2].day>> ELSE <<>>)
         \o CrossLoop(short_average, long_average, i + 1)

\* golden_cross lines 292-320 on what get_data fetched: the list it returns and
\* the message it sends.
GoldenCrossOf(series, short, long) ==
    LET short_average == moving_average(series, short)
        long_average == moving_average(series, long)
    IN  IF short_average.exc # "none" \/ long_average.exc # "none"
        THEN [exc |-> "none", events |-> <<>>, sent |-> "Not enough data"]
        ELSE IF short_average.some /\ long_average.some
        THEN [exc |-> "none", events |-> CrossLoop(short_average.rows, long_average.rows, 0),
              sent |-> "none"]
        ELSE [exc |-> "none", events |-> <<>>, sent |-> "Couldn't get data"]

\* No thread runs; an indicator is computed on one of `inputs`.
Computing(inputs) ==
    /\ QueueConstructed(<<>>)
    /\ ChannelsConstructed
    /\ TrackerConstructed(Days)
    /\ DriversIdle
    /\ data = [s \in Symbols |-> Missing]
    /\ func = "none"
    /\ lsn = "instance"
    /\ started = 0
    /\ loc = [t \in Threads |-> NoLocals]
    /\ ret = [t \in Threads |-> "driver"]
    /\ out = [t \in Threads |-> NoOutcome]
    /\ given \in inputs
    /\ computed = NoVal

\* What a computation leaves alone.
NotComputed == <<queueVars, msg, chanVars, trackerVars, threadVars,
                 data, func, lsn, started, loc, ret, out, given>>

\* The series the computations are tried on: every series of at most MaxCloses
\* closes, every place of `start` in it or behind it, `end` on the last row
\* or the one before; and the fetch that gave None.
AllSeries ==
    {NoSeries} \cup
    {Series(closes, first, last) :
        closes \in SeqsUpTo(Prices, MaxCloses), first \in 1..(MaxCloses + 1), last \in 0..MaxCloses}
SeriesInputs ==
    {x \in AllSeries : x.some => /\ x.first <= Len(x.closes) + 1
                                 /\ x.last \in {Len(x.closes) - 1, Len(x.closes)}
                                 /\ x.last >= 0}

\* golden_cross(symbol, listener, short, long, start, end, local, dir) on a series
CrossInputs ==
    {[fn |-> "golden_cross", series |-> x, short |-> short, long |-> long] :
        x \in SeriesInputs, short \in 1..MaxPeriod, long \in 1..MaxPeriod}

\* The scenario: closes 10, 10, 10, 10, 11, 12, a 2-day and a 3-day average,
\* the range beginning on the first day that has three days before it.
CrossScenario ==
    [fn |-> "golden_cross", series |-> Series(<<10, 10, 10, 10, 11, 12>>, 4, 6),
     short |-> 2, long |-> 3]

GoldenCrossValue ==
    /\ given.fn = "golden_cross"
    /\ computed = NoVal
    /\ computed' = GoldenCrossOf(given.series, given.short, given.long)
    /\ UNCHANGED NotComputed

InitCross == Computing(CrossInputs \cup {CrossScenario})
NextCross == GoldenCrossValue
SpecCross == InitCross /\ [][NextCross]_vars

\* The mean of the n closes up to day d, as the pair of its sum and n, and the
\* comparison of two such means.
MeanUpTo(closes, d, n) == <<SumFrom(closes, d - n + 1, d), n>>
MeanLeq(a, b) == a[1] * b[2] <= b[1] * a[2]

\* The days d of the window whose day before is in the window as well, with
\* short[d - 1] <= long[d - 1] and short[d] > long[d].
CrossDays(series, short, long) ==
    {d \in (series.first + 1)..series.last :
        /\ MeanLeq(MeanUpTo(series.closes, d - 1, short), MeanUpTo(series.closes, d - 1, long))
        /\ ~MeanLeq(MeanUpTo(series.closes, d, short), MeanUpTo(series.closes, d, long))}

\* A sequence of days runs in date order and lists a day only once.
InDateOrder(days) == \A i, j \in DOMAIN days : i < j => days[i] < days[j]
DaysOf(days) == {days[i] : i \in DOMAIN days}

\* C12: with both averages there, golden_cross returns exactly the days d of
\* the window whose pair (d - 1, d) of adjacent window days has
\* short[d - 1] <= long[d - 1] and short[d] > long[d], all of them, in date
\* order; the scenario gives exactly one event, on day 5, the first day the
\* 2-day average exceeds the 3-day average.
C12_CrossDates ==
    (given.fn = "golden_cross" /\ computed # NoVal) =>
        /\ computed.sent = "none" =>
              /\ DaysOf(computed.events) = CrossDays(given.series, given.short, given.long)
              /\ InDateOrder(computed.events)
        /\ given = CrossScenario => computed.events = <<5>> /\ computed.sent = "none"

\* The scenario has been computed and gave its one event.
C12_Witness ==
    /\ given = CrossScenario
    /\ computed # NoVal
    /\ computed.events = <<5>>

\* The days d of the window with short[d - 1] <= long[d - 1] and
\* short[d] > long[d], the day before d being the trading day before it in the
\* fetched rows, inside the window or before `start`.
RangeCrossDays(series, short, long) ==
    {d \in series.first..series.last :
        /\ MeanLeq(MeanUpTo(series.closes, d - 1, short), MeanUpTo(series.closes, d - 1, long))
        /\ ~MeanLeq(MeanUpTo(series.closes, d, short), MeanUpTo(series.closes, d, long))}

\* C29: with both averages there, golden_cross returns every trading day d of
\* start..end, the first trading day of the range included, on which the
\* short average is above the long average having been at or below it on the
\* trading day before, also when that day lies before start.
C29_CrossOnFirstDay ==
    (given.fn = "golden_cross" /\ computed # NoVal /\ computed.sent = "none") =>
        DaysOf(computed.events) = RangeCrossDays(given.series, given.short, given.long)

----------------------------------------------------------------------------
(* rsi as a computation on a price series (technical_analysis/rsi.py)       *)

\* The divisor of the first average gain and loss, lines 54-55.
FirstAverageDivisor == 14

\* Infinity: what NumPy gives for x / 0 with x > 0.
Infinity == [num |-> 1, den |-> 0]
Finite(x) == x.den # 0

\* a / b of two numbers >= 0 as NumPy divides float64: x / 0 is inf for x > 0
\* and NaN for x = 0.
Divide(a, b) ==
    IF ~Finite(a) \/ ~Finite(b) THEN NaN
    ELSE IF b.num = 0 THEN (IF a.num = 0 THEN NaN ELSE Infinity)
    ELSE Ratio(a.num * b.den, a.den * b.num)

\* 100 - 100 / (1 + rs), lines 59-60 and 67: NaN for NaN, 100 for inf.
RsiFromRs(rs) ==
    IF rs = NaN THEN NaN
    ELSE IF rs = Infinity THEN Ratio(100, 1)
    ELSE Ratio(100 * rs.num, rs.num + rs.den)

\* Lines 30-38: the gain and the loss of fetched row i over row i - 1; row 1
\* has none.
Gain(closes, i) == IF closes[i] - closes[i - 1] >= 0 THEN closes[i] - closes[i - 1] ELSE 0
Loss(closes, i) == IF closes[i] - closes[i - 1] >= 0 THEN 0 ELSE closes[i - 1] - closes[i]

\* Line 41: the working frame is the fetched one without its first row, so
\* its row k is fetched row k + 1.  Its "Gain" and "Loss" columns:
Gains(closes) == [k \in 1..(Len(closes) - 1) |-> Gain(closes, k + 1)]
Losses(closes) == [k \in 1..(Len(closes) - 1) |-> Loss(closes, k + 1)]

\* _exp_average(previous, current, period), lines 72-76
_exp_average(previous, current, period) ==
    Ratio((period - 1) * previous.num + current * previous.den, period * previous.den)

\* Lines 48-55 and 62-66: "Average Gain" or "Average Loss" on row k of the
\* working frame (rows count from 1, so df.index[period - 1] is row `period`):
\* NaN before row `period`, on it the sum of the first `period` values of the
\* column over 14, on later rows the exponential average.
RECURSIVE Average(_, _, _)
Average(column, period, k) ==
    IF k < period THEN NaN
    ELSE IF k = period
    THEN Ratio(SumFrom(column, 1, period), FirstAverageDivisor)
    ELSE _exp_average(Average(column, period, k - 1), column[k], period)

\* Lines 59-60 and 67: "RSI" on row k of the working frame.
RsiAt(closes, period, k) ==
    IF k < period THEN NaN
    ELSE RsiFromRs(Divide(Average(Gains(closes), period, k), Average(Losses(closes), period, k)))

\* rsi lines 23-69 on what get_data fetched: None for None; IndexError at
\* line 41 when the frame has no second row and at lines 51-52 when the
\* working frame has fewer than `period` rows; else the rows of the working
\* frame dated start..end, each with the date of its fetched row.
RsiOf(series, period) ==
    LET closes == series.closes
        from == IF series.first < 2 THEN 2 ELSE series.first
    IN  IF ~series.some THEN [exc |-> "none", some |-> FALSE, rows |-> <<>>]
        ELSE IF Len(closes) < 2 \/ Len(closes) - 1 < period
        THEN [exc |-> "IndexError", some |-> FALSE, rows |-> <<>>]
        ELSE [exc |-> "none", some |-> TRUE,
              rows |-> [k \in 1..(IF series.last >= from THEN series.last - from + 1 ELSE 0) |->
                          [day |-> from + k - 1,
                           value |-> RsiAt(closes, period, from + k - 2),
                           average_gain |-> Average(Gains(closes), period, from + k - 2),
                           average_loss |-> Average(Losses(closes), period, from + k - 2)]]]

\* rsi(symbol, start, end, period, local=True, dir) on a series
RsiInputs ==
    {[fn |-> "rsi", series |-> x, period |-> period] : x \in SeriesInputs, period \in 1..MaxPeriod}

\* The scenario: a 14-day RSI asked for a range with ten trading days before
\* it, in a file that ends with the range's first day and in one that goes on
\* for five more days.
RsiScenarioShort ==
    [fn |-> "rsi", series |-> Series(<<10, 11, 12, 11, 10, 11, 12, 11, 10, 11, 12>>, 11, 11),
     period |-> RSI_PERIOD]
RsiScenarioLong ==
    [fn |-> "rsi",
     series |-> Series(<<10, 11, 12, 11, 10, 11, 12, 11, 10, 11, 12, 11, 10, 11, 12, 11>>, 11, 16),
     period |-> RSI_PERIOD]

RsiValue ==
    /\ given.fn = "rsi"
    /\ computed = NoVal
    /\ computed' = RsiOf(given.series, given.period)
    /\ UNCHANGED NotComputed

InitRsi == Computing(RsiInputs \cup {RsiScenarioShort, RsiScenarioLong})
NextRsi == RsiValue
SpecRsi == InitRsi /\ [][NextRsi]_vars

\* rsi has been computed on a fetched series.
RsiComputed == given.fn = "rsi" /\ computed # NoVal /\ given.series.some

\* C13: when fewer than period + 1 rows of the fetched series are dated before
\* start, rsi raises NotEnoughDataError: it returns no series and raises no
\* other error.
C13_RsiShortOfData ==
    (RsiComputed /\ given.series.first - 1 < given.period + 1) =>
        computed.exc = "NotEnoughDataError"

\* The rows rsi returned on which it computed an RSI value: those that have
\* an average loss.
RsiProduced == {k \in DOMAIN computed.rows : Defined(computed.rows[k].average_loss)}

\* C18: every RSI value rsi produces is a number in [0, 100], never infinity
\* or NaN, and it is 100 exactly when the average loss is 0, also when the
\* average gain is 0 as well (flat prices).
C18_RsiRange ==
    (RsiComputed /\ computed.exc = "none") =>
        \A k \in RsiProduced :
            LET row == computed.rows[k]
            IN  /\ Defined(row.value)
                /\ 0 <= row.value.num
                /\ row.value.num <= 100 * row.value.den
                /\ row.value.num = 100 * row.value.den <=> row.average_loss.num = 0

\* C19: for every period p >= 1 the first average gain and the first average
\* loss are the sums of the first p gains and losses divided by p, and each
\* later average is ((p - 1) * previous + current) / p.
C19_RsiAverages ==
    (RsiComputed /\ computed.exc = "none") =>
        LET p == given.period
            closes == given.series.closes
        IN  \A k \in RsiProduced :
                LET row == computed.rows[k]
                IN  IF row.day = p + 1
                    THEN /\ row.average_gain.num * p = SumFrom(Gains(closes), 1, p) * row.average_gain.den
                         /\ row.average_loss.num * p = SumFrom(Losses(closes), 1, p) * row.average_loss.den
                    ELSE k > 1 =>
                         LET previous == computed.rows[k - 1]
                         IN  /\ row.average_gain.num * p * previous.average_gain.den
                                  = row.average_gain.den * ((p - 1) * previous.average_gain.num
                                        + Gain(closes, row.day) * previous.average_gain.den)
                             /\ row.average_loss.num * p * previous.average_loss.den
                                  = row.average_loss.den * ((p - 1) * previous.average_loss.num
                                        + Loss(closes, row.day) * previous.average_loss.den)

\* C20: every row rsi returns for start..end has an RSI value, no row that
\* lacks history (before row `period` of the working frame) is returned, and
\* the first trading day of the range is there.
C20_RsiRowsComplete ==
    (RsiComputed /\ computed.exc = "none") =>
        /\ \A k \in DOMAIN computed.rows :
              /\ Defined(computed.rows[k].value)
              /\ computed.rows[k].day >= given.period + 1
        /\ given.series.first <= given.series.last =>
              /\ computed.rows # <<>>
              /\ computed.rows[1].day = given.series.first

----------------------------------------------------------------------------
(* EMA and EMA_from_symbol as computations                                  *)
(* (technical_analysis/moving_averages.py)                                  *)

RECURSIVE Gcd(_, _)
Gcd(a, b) == IF b = 0 THEN a ELSE Gcd(b, a % b)

\* The same number in lowest terms (numbers here are >= 0).
Reduce(x) ==
    IF x.den = 0 THEN NaN
    ELSE LET g == Gcd(x.num, x.den) IN Ratio(x.num \div g, x.den \div g)

\* a + b, a - b, a * b of floats: NaN when either is NaN.
Plus(a, b) ==
    IF ~Defined(a) \/ ~Defined(b) THEN NaN
    ELSE Reduce(Ratio(a.num * b.den + b.num * a.den, a.den * b.den))
Minus(a, b) ==
    IF ~Defined(a) \/ ~Defined(b) THEN NaN
    ELSE Reduce(Ratio(a.num * b.den - b.num * a.den, a.den * b.den))
Times(a, b) ==
    IF ~Defined(a) \/ ~Defined(b) THEN NaN
    ELSE Reduce(Ratio(a.num * b.num, a.den * b.den))

\* A column of whole prices as a column of numbers.
PriceColumn(closes) == [i \in 1..Len(closes) |-> Ratio(closes[i], 1)]

\* EMA lines 149-151: total of the first n values of the column
RECURSIVE Total(_, _)
Total(column, n) == IF n = 0 THEN Ratio(0, 1) ELSE Plus(Total(column, n - 1), column[n])

\* EMA lines 147-160: the value of the new column on row i (rows count from 1,
\* so df.index[n - 1] is row n).  NaN before row n, total / n on row n, then
\* value * multiplier + previous * (1 - multiplier) with multiplier 2 / (1 + n).
RECURSIVE EmaAt(_, _, _)
EmaAt(column, n, i) ==
    LET multiplier == Ratio(2, 1 + n)
    IN  IF i < n THEN NaN
        ELSE IF i = n THEN Times(Total(column, n), Ratio(1, n))
        ELSE Plus(Times(column[i], multiplier),
                  Times(EmaAt(column, n, i - 1), Minus(Ratio(1, 1), multiplier)))

\* EMA with the test of line 145 off by one: a frame of n rows is let through.
EMA_without_spare_row(column, n) ==
    IF Len(column) < n
    THEN [exc |-> "NotEnoughDataError", added |-> FALSE, result |-> <<>>]
    ELSE [exc |-> "none", added |-> TRUE,
          result |-> [i \in 1..Len(column) |-> EmaAt(column, n, i)]]

\* EMA(df, column, result, n), lines 145-160: NotEnoughDataError before any
\* column is added when df has fewer than n + 1 rows, else the new column.
EMAOf(column, n) ==
    IF Len(column) < n + 1
    THEN [exc |-> "NotEnoughDataError", added |-> FALSE, result |-> <<>>]
    ELSE [exc |-> "none", added |-> TRUE,
          result |-> [i \in 1..Len(column) |-> EmaAt(column, n, i)]]

\* EMA_from_symbol lines 110-130 on what get_data fetched: None for None,
\* NotEnoughDataError when fewer than n rows precede `start` (line 122) or when
\* EMA raises it (line 127), else the EMA column cut to start..end.
EMAFromSymbolOf(series, n) ==
    LET ema == EMAOf(PriceColumn(series.closes), n)
    IN  IF ~series.some THEN [exc |-> "none", some |-> FALSE, rows |-> <<>>]
        ELSE IF series.first - 1 < n \/ ema.exc # "none"
        THEN [exc |-> "NotEnoughDataError", some |-> FALSE, rows |-> <<>>]
        ELSE [exc |-> "none", some |-> TRUE, rows |-> Slice(ema.result, series.first, series.last)]

\* EMA(df, "Price", result, n) on a frame with one column of prices
EMAInputs ==
    {[fn |-> "EMA", column |-> closes, n |-> n] :
        closes \in SeqsUpTo(Prices, MaxCloses), n \in 1..MaxPeriod}

\* EMA_from_symbol(symbol, start, end, n, local=True, dir) on a series
EMAFromSymbolInputs ==
    {[fn |-> "EMA_from_symbol", series |-> x, n |-> n] : x \in SeriesInputs, n \in 1..MaxPeriod}

EMAValue ==
    /\ given.fn = "EMA"
    /\ computed = NoVal
    /\ computed' = EMAOf(PriceColumn(given.column), given.n)
    /\ UNCHANGED NotComputed

EMAFromSymbolValue ==
    /\ given.fn = "EMA_from_symbol"
    /\ computed = NoVal
    /\ computed' = EMAFromSymbolOf(given.series, given.n)
    /\ UNCHANGED NotComputed

InitEMA == Computing(EMAInputs \cup EMAFromSymbolInputs)
NextEMA == EMAValue \/ EMAFromSymbolValue
SpecEMA == InitEMA /\ [][NextEMA]_vars

\* C17: EMA raises NotEnoughDataError exactly when the frame has fewer than
\* n + 1 rows, and then adds no column; otherwise the new column has no value
\* on rows 1..n-1 (indices 0..n-2), the plain mean of the first n values on
\* row n (index n-1), and on every later row i the value
\* value[i] * 2/(n+1) + result[i-1] * (1 - 2/(n+1)).
C17_EmaColumn ==
    (given.fn = "EMA" /\ computed # NoVal) =>
        LET value == given.column
            n == given.n
            result == computed.result
        IN  /\ computed.exc \in {"none", "NotEnoughDataError"}
            /\ computed.exc = "NotEnoughDataError" <=> Len(value) < n + 1
            /\ computed.exc = "NotEnoughDataError" => ~computed.added
            /\ computed.exc = "none" =>
                  /\ computed.added
                  /\ Len(result) = Len(value)
                  /\ \A i \in 1..(n - 1) : ~Defined(result[i])
                  /\ Defined(result[n])
                  /\ result[n].num * n = SumFrom(value, 1, n) * result[n].den
                  /\ \A i \in (n + 1)..Len(value) :
                        /\ Defined(result[i])
                        /\ result[i].num * (n + 1) * result[i - 1].den
                              = result[i].den * (2 * value[i] * result[i - 1].den
                                                 + (n - 1) * result[i - 1].num)

\* EMA has filled a column that has rows without a value, the seed and two
\* rows computed from the row before, on prices that are not all the same.
C17_Witness ==
    /\ given.fn = "EMA"
    /\ computed # NoVal
    /\ computed.exc = "none"
    /\ given.n >= 2
    /\ Len(given.column) >= given.n + 2
    /\ \E i, j \in DOMAIN given.column : given.column[i] # given.column[j]

\* C14: when fewer than n + 1 rows of the fetched series are dated before
\* start, EMA_from_symbol raises NotEnoughDataError.
C14_EmaLookback ==
    (/\ given.fn = "EMA_from_symbol"
     /\ computed # NoVal
     /\ given.series.some
     /\ given.series.first - 1 < given.n + 1) => computed.exc = "NotEnoughDataError"

----------------------------------------------------------------------------
(* MACD as a computation on a price series                                  *)
(* (technical_analysis/moving_averages.py): which rows get a value          *)

MaxHistory == 38

\* EMA lines 145-160 on a column of which only "has a value" is kept for each
\* row: the new column has a value on row i when i >= n and rows 1..i of the
\* column have one (a NaN in the total or in a previous value stays).
EMADefined(column, n) ==
    IF Len(column) < n + 1
    THEN [exc |-> "NotEnoughDataError", added |-> FALSE, result |-> <<>>]
    ELSE [exc |-> "none", added |-> TRUE,
          result |-> [i \in 1..Len(column) |-> i >= n /\ \A k \in 1..i : column[k]]]

\* No trimming: the frame is kept from its first row on.
FirstRow(column) == 1

\* Lines 211-213: the first row with a value for MACD
FirstDefined(column) == CHOOSE i \in 1..Len(column) : column[i] /\ \A k \in 1..(i - 1) : ~column[k]

\* MACD lines 182-222 on what get_data fetched: None for None,
\* NotEnoughDataError when fewer than MACD_LONG_AVERAGE + MACD_SIGNAL_PERIOD
\* rows precede `start` (line 195) or when an EMA raises it, else the rows of
\* the trimmed frame dated start..end, each with whether MACD and Signal have
\* a value.
MACDOf(series) ==
    LET price == [i \in 1..Len(series.closes) |-> TRUE]
        short == EMADefined(price, MACD_SHORT_AVERAGE)
        long == EMADefined(price, MACD_LONG_AVERAGE)
        macd == [i \in 1..Len(price) |-> short.result[i] /\ long.result[i]]
        i == FirstDefined(macd)
        signal == EMADefined(SubSeq(macd, i, Len(macd)), MACD_SIGNAL_PERIOD)
        from == IF series.first < i THEN i ELSE series.first
    IN  IF ~series.some THEN [exc |-> "none", some |-> FALSE, rows |-> <<>>]
        ELSE IF series.first - 1 < MACD_LONG_AVERAGE + MACD_SIGNAL_PERIOD
        THEN [exc |-> "NotEnoughDataError", some |-> FALSE, rows |-> <<>>]
        ELSE IF short.exc # "none" \/ long.exc # "none" \/ signal.exc # "none"
        THEN [exc |-> "NotEnoughDataError", some |-> FALSE, rows |-> <<>>]
        ELSE [exc |-> "none", some |-> TRUE,
              rows |-> [k \in 1..(IF series.last >= from THEN series.last - from + 1 ELSE 0) |->
                          [day |-> from + k - 1,
                           macd |-> macd[from + k - 1],
                           signal |-> signal.result[from + k - i]]]]

\* MACD(symbol, start, end, local=True, dir) on a series of up to MaxHistory
\* rows, every place of `start` in it or behind it, `end` on the last row or
\* the one before; and the fetch that gave None.
MACDInputs ==
    {[fn |-> "MACD", series |-> NoSeries]} \cup
    {[fn |-> "MACD", series |-> Series([i \in 1..len |-> 10 + (i % 3)], first, last)] :
        len \in 1..MaxHistory, first \in 1..(MaxHistory + 1), last \in 1..MaxHistory}

MACDValue ==
    /\ given.fn = "MACD"
    /\ computed = NoVal
    /\ computed' = MACDOf(given.series)
    /\ UNCHANGED NotComputed

InitMACD ==
    Computing({x \in MACDInputs : x.series.some =>
                  /\ x.series.first <= Len(x.series.closes) + 1
                  /\ x.series.last \in {Len(x.series.closes) - 1, Len(x.series.closes)}
                  /\ x.series.last >= 1})
NextMACD == MACDValue
SpecMACD == InitMACD /\ [][NextMACD]_vars

\* MACD has returned a series.
MACDReturned == given.fn = "MACD" /\ computed # NoVal /\ computed.exc = "none" /\ computed.some

\* C21: whenever MACD returns a series, Signal is the 9-day EMA of the rows
\* from the first one with a MACD value on (the 25 warm-up rows are trimmed
\* first), so it has a value from the 9th of those rows on; every returned
\* row has both a MACD and a Signal value, none of the warm-up rows is
\* returned, and the rows with a Signal value are never more than the rows
\* with a MACD value.
C21_SignalOverDefinedMacd ==
    MACDReturned =>
        LET rows == computed.rows
            warmup == MACD_LONG_AVERAGE - 1
        IN  /\ \A k \in DOMAIN rows : rows[k].macd /\ rows[k].signal
            /\ \A k \in DOMAIN rows : rows[k].day > warmup
            /\ \A k \in DOMAIN rows : rows[k].signal <=> rows[k].day >= warmup + MACD_SIGNAL_PERIOD
            /\ Cardinality({k \in DOMAIN rows : rows[k].signal})
                  <= Cardinality({k \in DOMAIN rows : rows[k].macd})

\* MACD has returned the rows of a range of three days.
C21_Witness ==
    /\ MACDReturned
    /\ Len(computed.rows) >= 3
    /\ computed.rows[1].day = given.series.first

\* C15: when fewer than 26 + 9 + 1 = 36 rows of the fetched series are dated
\* before start, MACD raises NotEnoughDataError.
C15_MacdLookback ==
    (/\ given.fn = "MACD"
     /\ computed # NoVal
     /\ given.series.some
     /\ given.series.first - 1 < MACD_LONG_AVERAGE + MACD_SIGNAL_PERIOD + 1) =>
        computed.exc = "NotEnoughDataError"

----------------------------------------------------------------------------
(* moving_average as a computation on a price series                        *)

\* moving_average(symbol, start, end, n, local=True, dir) on a series
AverageInputs ==
    {[fn |-> "moving_average", series |-> x, n |-> n] : x \in SeriesInputs, n \in 1..MaxPeriod}

MovingAverageValue ==
    /\ given.fn = "moving_average"
    /\ computed = NoVal
    /\ computed' = moving_average(given.series, given.n)
    /\ UNCHANGED NotComputed

InitAverage == Computing(AverageInputs)
NextAverage == MovingAverageValue
SpecAverage == InitAverage /\ [][NextAverage]_vars

----------------------------------------------------------------------------
(* moving_average on a calendar: the range it asks get_data for (line 66)   *)

MaxAverage == 10

\* A calendar day is a number, day 0 a Monday; the market trades Monday to
\* Friday of every week.
Weekdays == 0..4
IsTradingDay(day) == (day % 7) \in Weekdays

\* math.ceil(a / b) of two positive integers
Ceil(a, b) == (a + b - 1) \div b

\* line 66: the fetch begins datetime.timedelta(n + math.ceil((3 * n) / 7))
\* before start
OverFetch(n) == n + Ceil(3 * n, 7)

\* The Monday of a week far enough from day 0 for the range to begin after it.
Epoch(n) == 7 * OverFetch(n)

\* The trading days from..to in date order
RECURSIVE TradingDates(_, _)
TradingDates(from, to) ==
    IF from > to THEN <<>>
    ELSE (IF IsTradingDay(from) THEN <<from>> ELSE <<>>) \o TradingDates(from + 1, to)

\* lines 72-74: df.index is in date order, num_preceding counts the rows
\* dated before start
NumPreceding(dates, start) == Cardinality({i \in DOMAIN dates : dates[i] < start})

\* What get_data gives "according to the given range" (its docstring) when
\* every trading day of the range has a row: the rows dated from the day
\* OverFetch(n) days before start to end, end being `span` days after start.
RangeFetched(n, weekday, span) ==
    LET start == Epoch(n) + weekday
        dates == TradingDates(start - OverFetch(n), start + span)
    IN  Series([i \in DOMAIN dates |-> 10 + (dates[i] % 3)],
               NumPreceding(dates, start) + 1, Len(dates))

CalendarInputs ==
    {[fn |-> "moving_average on a calendar", n |-> n, weekday |-> weekday, span |-> span] :
        n \in 1..MaxAverage, weekday \in Weekdays, span \in {0, 1}}

MovingAverageOnCalendar ==
    /\ given.fn = "moving_average on a calendar"
    /\ computed = NoVal
    /\ computed' = moving_average(RangeFetched(given.n, given.weekday, given.span), given.n)
    /\ UNCHANGED NotComputed

InitCalendar == Computing(CalendarInputs)
NextCalendar == MovingAverageOnCalendar
SpecCalendar == InitCalendar /\ [][NextCalendar]_vars

\* C30: on a calendar with a row for every Monday to Friday, for every n >= 1
\* and every weekday of start, the range that begins n + ceil(3n/7) calendar
\* days before start holds at least n trading days before start, and
\* moving_average does not raise NotEnoughDataError.
C30_OverFetchSuffices ==
    (given.fn = "moving_average on a calendar" /\ computed # NoVal) =>
        /\ RangeFetched(given.n, given.weekday, given.span).first - 1 >= given.n
        /\ computed.exc # "NotEnoughDataError"

----------------------------------------------------------------------------
(* MACD_signal's loop as a computation on the frames it holds               *)
(* (technical_analysis/moving_averages.py lines 268-278)                    *)

MaxWindow == 3

\* The values a MACD cell, the Signal cell and the 200-day EMA cell are tried
\* with: MACD below, at and above the signal line; the close (one of Prices)
\* below, at and above the EMA, or the EMA without a value.
MacdValues == {0, 1, 2}
SignalValues == {1}
EmaValues == {NaN, Ratio(11, 1)}

\* One day of the range as MACD_signal sees it: the row of `macd` (MACD and
\* Signal, both with a value) and the row of `data` for the same date (the
\* close and the EMA column, NaN before row 200 of the file).
SignalRows ==
    {[macd |-> a, signal |-> s, price |-> p, ema |-> e] :
        a \in MacdValues, s \in SignalValues, p \in Prices, e \in EmaValues}

\* MACD_signal lines 271-276: for i in range(1, len(macd.index)), day i is a
\* signal when MACD > Signal that day, MACD <= Signal the day before and the
\* close is above the EMA that day.  Rows count from 1, so index i is row i + 1.
RECURSIVE SignalLoop(_, _)
SignalLoop(rows, i) ==
    IF i > Len(rows) - 1 THEN <<>>
    ELSE (IF /\ Above(Ratio(rows[i + 1].macd, 1), Ratio(rows[i + 1].signal, 1))
             /\ AtOrBelow(Ratio(rows[i].macd, 1), Ratio(rows[i].signal, 1))
             /\ Above(Ratio(rows[i + 1].price, 1), rows[i + 1].ema)
          THEN <<i + 1>> ELSE <<>>)
         \o SignalLoop(rows, i + 1)

\* MACD_signal lines 268-278 once `macd` and `data` are there: EMA raises
\* NotEnoughDataError on a file of fewer than 201 rows, else the list of
\* signals is returned.
MACDSignalOf(total, rows) ==
    IF EMA(total, EMA_PERIOD) # "none"
    THEN [exc |-> EMA(total, EMA_PERIOD), events |-> <<>>]
    ELSE [exc |-> "none", events |-> SignalLoop(rows, 1)]

\* The frames MACD_signal is tried on: a file of 200 or of 201 rows and more,
\* a range of up to MaxWindow days; the days without an EMA value come first.
SignalInputs ==
    {x \in {[fn |-> "MACD_signal", total |-> total, rows |-> rows] :
               total \in {EMA_PERIOD, EMA_PERIOD + 1}, rows \in SeqsUpTo(SignalRows, MaxWindow)} :
        \A k \in 1..(Len(x.rows) - 1) : Defined(x.rows[k].ema) => Defined(x.rows[k + 1].ema)}

MACDSignalValue ==
    /\ given.fn = "MACD_signal"
    /\ computed = NoVal
    /\ computed' = MACDSignalOf(given.total, given.rows)
    /\ UNCHANGED NotComputed

InitSignal == Computing(SignalInputs)
NextSignal == MACDSignalValue
SpecSignal == InitSignal /\ [][NextSignal]_vars

\* The days d of the range, with the day before in the range as well, on
\* which MACD > Signal, MACD <= Signal the day before, the EMA has a value and
\* the close is above it.
SignalDays(rows) ==
    {d \in 2..Len(rows) :
        /\ rows[d].macd > rows[d].signal
        /\ rows[d - 1].macd <= rows[d - 1].signal
        /\ rows[d].ema # NaN
        /\ rows[d].price * rows[d].ema.den > rows[d].ema.num}

\* C22: MACD_signal reports day d exactly when MACD[d] > Signal[d],
\* MACD[d-1] <= Signal[d-1] on the row before it in the MACD window, and
\* price[d] > EMA200[d]; a day with only the crossover, only the trend, or no
\* EMA200 value is never reported.
C22_SignalDates ==
    (given.fn = "MACD_signal" /\ computed # NoVal) =>
        /\ computed.exc = "none" =>
              /\ DaysOf(computed.events) = SignalDays(given.rows)
              /\ InDateOrder(computed.events)
        /\ computed.exc # "none" => computed.events = <<>>

\* A range with a reported day, a crossover below the EMA, and a day above
\* the EMA without a crossover.
C22_Witness ==
    /\ given.fn = "MACD_signal"
    /\ computed # NoVal
    /\ computed.exc = "none"
    /\ Len(given.rows) = 3
    /\ computed.events = <<2>>
    /\ given.rows[3].macd > given.rows[3].signal
    /\ given.rows[3].price > 11

====
